---- MODULE Spec2Model ----
(***************************************************************************)
(* Model of the decision core of the game bot: the behaviour state machine *)
(* (src/learning/state_machine.py) driven by the orchestrator AIBot        *)
(* (src/ai_core.py), the pattern recognizer                                *)
(* (src/learning/pattern_recognition.py) it selects targets with, the      *)
(* activity models (src/activities/), the threads the interface starts     *)
(* for the control loop (src/main.py), the feedback of the environment     *)
(* (src/game_environment.py) and the capture threads of the screen         *)
(* observer (src/learning/screen_observer.py).                             *)
(*                                                                         *)
(* Numbers that the program keeps as Python floats (transition weights,    *)
(* success rates, activity scores) are kept here as exact fractions        *)
(* <<numerator, denominator>> in lowest terms, without float rounding.     *)
(* The one exception is rate64, a profile's success rate under repeated    *)
(* updates, which is kept as an IEEE binary64 value and rounded as Python  *)
(* rounds it.                                                              *)
(***************************************************************************)
EXTENDS Integers, Sequences, FiniteSets, TLC

VARIABLES
    current_state,          \* AIBot.current_state
    current_target,         \* AIBot.current_target
    recent_actions,         \* AIBot.recent_actions
    transitions,            \* StateMachine.transitions
    state_timers,           \* StateMachine.state_timers
    state_success_rates,    \* StateMachine.state_success_rates
    consecutive_failures,   \* StateMachine.consecutive_failures
    observations,           \* PatternRecognizer.observations
    patterns,               \* PatternRecognizer.patterns
    clustering,             \* clustering passes made, records appended since the last one
    collected,              \* DataCollector: lengths of observations and outcomes, total_actions
    action_history,         \* OpenAIAnalyzer.action_history (its length)
    returned,               \* every action decide_action has returned, oldest first
    selection,              \* a select_best_* call: its argument and, once made, its result
    last,                   \* the call that produced the present state
    streak,                 \* the run of update_transitions(s, failure) calls that ends at the present state
    calls,                  \* number of calls made to the bot so far
    combat_patterns,        \* CombatManager.combat_patterns
    combat_failures,        \* CombatManager.consecutive_failures
    fishing_patterns,       \* FishingManager.fishing_patterns
    gathering_patterns,     \* ResourceGatherer.gathering_patterns
    engagements,            \* the success of every engage_combat call, oldest first
    activity,               \* the last call made to an activity model
    rate64,                 \* a success_rate as the binary64 number the interpreter holds
    is_running,             \* GameAIInterface.is_running
    ai_threads,             \* where each thread started on run_ai_loop stands
    is_recording,           \* ScreenObserver.is_recording
    capture_threads         \* each thread started on _capture_loop, the last one being capture_thread

vars == <<current_state, current_target, recent_actions, transitions,
          state_timers, state_success_rates, consecutive_failures,
          observations, patterns, clustering, collected, action_history, returned,
          selection, last, streak, calls,
          combat_patterns, combat_failures, fishing_patterns, gathering_patterns,
          engagements, activity, rate64, is_running, ai_threads,
          is_recording, capture_threads>>

\* the activity models of src/activities
activity_vars == <<combat_patterns, combat_failures, fishing_patterns,
                   gathering_patterns, engagements, activity, rate64>>

\* the screen observer and its capture-loop threads
observer_vars == <<is_recording, capture_threads>>

\* the window of src/main.py and its control-loop threads, and the screen
\* observer the window starts and stops
interface_vars == <<is_running, ai_threads, observer_vars>>

----------------------------------------------------------------------------
(* Bounds of the exploration *)

\* calls made to the bot in one run
MaxCalls == 6

----------------------------------------------------------------------------
(* Exact fractions in place of floats *)

RECURSIVE GCD(_, _)
GCD(a, b) == IF b = 0 THEN a ELSE GCD(b, a % b)

Rat(n, d) == LET g == GCD(n, d) IN <<n \div g, d \div g>>

\* a * b
RMul(a, b) ==
    LET g1 == GCD(a[1], b[2])
        g2 == GCD(b[1], a[2])
    IN  Rat((a[1] \div g1) * (b[1] \div g2), (a[2] \div g2) * (b[2] \div g1))

\* a + b
RAdd(a, b) ==
    LET g == GCD(a[2], b[2])
    IN  Rat(a[1] * (b[2] \div g) + b[1] * (a[2] \div g), (a[2] \div g) * b[2])

\* a / b, b # 0
RDiv(a, b) == RMul(a, <<b[2], b[1]>>)

\* sum(row.values()) over the keys in order
RECURSIVE RSum(_, _)
RSum(row, keys) ==
    IF keys = <<>> THEN <<0, 1>>
    ELSE RAdd(row[Head(keys)], RSum(row, Tail(keys)))

\* a < b, by comparing the integer parts and then the remainders
RECURSIVE RLess(_, _)
RLess(a, b) ==
    LET qa == a[1] \div a[2]
        qb == b[1] \div b[2]
        ra == a[1] % a[2]
        rb == b[1] % b[2]
    IN  IF qa # qb THEN qa < qb
        ELSE IF rb = 0 THEN FALSE
        ELSE IF ra = 0 THEN TRUE
        ELSE RLess(<<b[2], rb>>, <<a[2], ra>>)

----------------------------------------------------------------------------
(* StateMachine.__init__ *)

states == <<"idle", "gathering", "fishing", "combat", "exploring", "healing">>

StateSet == {states[i] : i \in 1..Len(states)}

\* keys of each row of the transition table, in insertion order
RowKeys(s) ==
    CASE s = "idle"      -> <<"gathering", "fishing", "combat", "exploring">>
      [] s = "gathering" -> <<"idle", "exploring", "combat", "gathering">>
      [] s = "fishing"   -> <<"idle", "exploring", "gathering", "fishing">>
      [] s = "combat"    -> <<"idle", "exploring", "gathering", "combat", "healing">>
      [] s = "exploring" -> <<"gathering", "fishing", "combat", "idle">>
      [] s = "healing"   -> <<"idle", "exploring", "gathering", "fishing">>

KeySet(s) == {RowKeys(s)[i] : i \in 1..Len(RowKeys(s))}

\* the initial weights, in tenths
InitialTenths(s) ==
    CASE s = "idle"      -> [gathering |-> 4, fishing |-> 3, combat |-> 2, exploring |-> 1]
      [] s = "gathering" -> [idle |-> 1, exploring |-> 2, combat |-> 1, gathering |-> 6]
      [] s = "fishing"   -> [idle |-> 1, exploring |-> 2, gathering |-> 1, fishing |-> 6]
      [] s = "combat"    -> [idle |-> 2, exploring |-> 2, gathering |-> 1, combat |-> 3, healing |-> 2]
      [] s = "exploring" -> [gathering |-> 4, fishing |-> 3, combat |-> 2, idle |-> 1]
      [] s = "healing"   -> [idle |-> 3, exploring |-> 3, gathering |-> 3, fishing |-> 1]

InitialTransitions ==
    [s \in StateSet |-> [t \in KeySet(s) |-> Rat(InitialTenths(s)[t], 10)]]

----------------------------------------------------------------------------
(* Inputs: environment snapshots and outcomes *)

Wood == [type |-> "resource", position |-> <<1, 1>>, properties |-> [resource_type |-> "wood"]]

Spot == [type |-> "fishing_spot", position |-> <<2, 2>>, properties |-> [fish_type |-> "rare"]]

Enemy(lvl) == [type |-> "enemy", position |-> <<3, 3>>, properties |-> [level |-> lvl, health |-> 100]]

\* nearby_objects lists fed to the bot: none, an enemy at level 6, and one
\* object of each kind with the enemy at level 5 (the two sides of the
\* "level > 5" test)
ObjectLists == {<<>>, <<Enemy(6)>>, <<Wood, Spot, Enemy(5)>>}

\* player health values around the thresholds 30 and 50
HealthValues == {29, 30, 49, 50, 51}

GameStates ==
    [player_position : {<<0, 0>>},
     nearby_objects  : ObjectLists,
     player_status   : [health : HealthValues]]

Outcomes == [success : BOOLEAN]

----------------------------------------------------------------------------
(* StateMachine.get_next_state and its helpers *)

\* the health read as 0 from a snapshot that has none
player_health_or_0(environment) ==
    IF "player_status" \in DOMAIN environment
       /\ "health" \in DOMAIN environment.player_status
    THEN environment.player_status.health
    ELSE 0

\* environment.get('player_status', {}).get('health', 100)
player_health(environment) ==
    IF "player_status" \in DOMAIN environment
       /\ "health" \in DOMAIN environment.player_status
    THEN environment.player_status.health
    ELSE 100

\* environment.get('nearby_objects', [])
nearby_objects_of(environment) ==
    IF "nearby_objects" \in DOMAIN environment THEN environment.nearby_objects ELSE <<>>

\* mutant of dangerous_enemies: >= in place of >
dangerous_enemies_from5(environment) ==
    LET objs == nearby_objects_of(environment)
    IN  {i \in 1..Len(objs) : objs[i].type = "enemy" /\ objs[i].properties.level >= 5}

dangerous_enemies(environment) ==
    LET objs == nearby_objects_of(environment)
    IN  {i \in 1..Len(objs) : objs[i].type = "enemy" /\ objs[i].properties.level > 5}

\* mutant of check_forced_transition: the low-health test left out
check_forced_transition_no_health(environment) ==
    dangerous_enemies(environment) # {} /\ player_health(environment) > 50

check_forced_transition(environment) ==
    IF player_health(environment) < 30 THEN TRUE
    ELSE IF dangerous_enemies(environment) # {} /\ player_health(environment) > 50 THEN TRUE
    ELSE FALSE

\* mutant of handle_forced_transition: the default of line 118 in every case
handle_forced_transition_exploring(environment) == "exploring"

handle_forced_transition(environment) ==
    IF player_health(environment) < 30 THEN "healing"
    ELSE IF dangerous_enemies(environment) # {} /\ player_health(environment) > 50 THEN "combat"
    ELSE "exploring"

\* mutant of health_override: the threshold of the forced transition (30)
\* used for the override
health_override_low(cs, environment) ==
    player_health(environment) < 30 /\ cs # "healing"

\* the test of lines 27-28: low health outside healing
health_override(cs, environment) ==
    player_health(environment) < 50 /\ cs # "healing"

\* mutant of too_many_failures: > in place of >=
too_many_failures_strict(cs) == consecutive_failures[cs] > 3

\* the test of line 42
too_many_failures(cs) == consecutive_failures[cs] >= 3

\* mutant of timer_expired: >= in place of >
timer_expired_from3(timer) == timer >= 3

\* the test of line 50, on the timer as incremented at line 33
timer_expired(timer) == timer > 3

\* mutant of reset_timer: the timer keeps its count
reset_timer_kept(timers, cs) == timers

\* line 79: self.state_timers[current_state] = 0
reset_timer(timers, cs) == [timers EXCEPT ![cs] = 0]

\* adjusted_probs of lines 54-69 before normalisation, as a fraction per key
adjusted_probs(cs) ==
    [t \in KeySet(cs) |->
        LET adjusted == RMul(transitions[cs][t], RAdd(<<1, 1>>, state_success_rates[t]))
        IN  IF cs = "idle" /\ t # "idle" THEN RMul(adjusted, <<2, 1>>) ELSE adjusted]

\* mutant of weighted_draw: any of the six states may be drawn
weighted_draw_any_state(cs) == StateSet

\* The states the cumulative draw of lines 74-81 can return for some
\* rand_val in [0, 1): a key is returned when rand_val falls in its slice
\* of the cumulative sum, that is when its probability is positive, and the
\* first key also when rand_val = 0.
weighted_draw(cs) ==
    {t \in KeySet(cs) : adjusted_probs(cs)[t][1] > 0 \/ t = RowKeys(cs)[1]}

\* The possible results of get_next_state(cs, environment): the returned
\* state with the timers and failure counters the call leaves behind.
\* raised: the call ends in KeyError (cs is no key of state_timers, line 24).
\* branch names the return statement taken.
get_next_state(cs, environment) ==
    IF cs \notin StateSet
    THEN {[raised |-> TRUE, branch |-> "raise", ret |-> cs, timers |-> state_timers, failures |-> consecutive_failures]}
    ELSE IF health_override(cs, environment)
    THEN {[raised |-> FALSE, branch |-> "override", ret |-> "healing", timers |-> state_timers, failures |-> consecutive_failures]}
    ELSE
        LET timers1 == [state_timers EXCEPT ![cs] = @ + 1]
        IN  IF check_forced_transition(environment)
            THEN {[raised |-> FALSE, branch |-> "forced", ret |-> handle_forced_transition(environment),
                   timers |-> timers1, failures |-> consecutive_failures]}
            ELSE IF too_many_failures(cs)
            THEN {[raised |-> FALSE, branch |-> "escape", ret |-> s, timers |-> timers1,
                   failures |-> [consecutive_failures EXCEPT ![cs] = 0]] : s \in StateSet \ {cs}}
            ELSE IF timer_expired(timers1[cs])
            THEN {[raised |-> FALSE, branch |-> "draw", ret |-> s, timers |-> reset_timer(timers1, cs),
                   failures |-> consecutive_failures] : s \in weighted_draw(cs)}
            ELSE {[raised |-> FALSE, branch |-> "stay", ret |-> cs, timers |-> timers1, failures |-> consecutive_failures]}

----------------------------------------------------------------------------
(* StateMachine.update_transitions *)

\* mutant of success_of: a missing field counts as a success
success_of_missing_true(outcome) ==
    IF "success" \in DOMAIN outcome THEN outcome.success ELSE TRUE

\* outcome.get('success', False)
success_of(outcome) ==
    IF "success" \in DOMAIN outcome THEN outcome.success ELSE FALSE

\* line 126: current_rate * 0.9 + (0.1 if success else 0)
new_success_rate(current_rate, success) ==
    RAdd(RMul(current_rate, <<9, 10>>), IF success THEN <<1, 10>> ELSE <<0, 1>>)

\* lines 129-132
new_failures(count, success) == IF success THEN 0 ELSE count + 1

\* mutant of reinforce_factor: the two factors swapped
reinforce_factor_swapped(state, target_state) ==
    IF target_state = state THEN <<9, 10>> ELSE <<11, 10>>

\* lines 137-141: the factor applied to the weight state -> target_state
reinforce_factor(state, target_state) ==
    IF target_state = state THEN <<11, 10>> ELSE <<9, 10>>

\* mutant of normalize: the division left out
normalize_skipped(row, keys) == row

\* lines 143-148: divide every weight of the row by the row's sum
normalize(row, keys) ==
    LET total == RSum(row, keys)
    IN  [t \in DOMAIN row |-> RDiv(row[t], total)]

\* mutant of new_row: the reinforcement applied whatever the outcome
new_row_always(state, success) ==
    normalize([t \in KeySet(state) |->
                  RMul(transitions[state][t], reinforce_factor(state, t))],
              RowKeys(state))

\* lines 135-148: the row of state after the outcome
new_row(state, success) ==
    IF success
    THEN normalize([t \in KeySet(state) |->
                        RMul(transitions[state][t], reinforce_factor(state, t))],
                   RowKeys(state))
    ELSE transitions[state]

\* mutant of update_transitions: the rate and the counter of every state
\* are updated
update_transitions_every_state(state, outcome) ==
    /\ state_success_rates' =
           [t \in StateSet |-> new_success_rate(state_success_rates[t], success_of(outcome))]
    /\ consecutive_failures' =
           [t \in StateSet |-> new_failures(consecutive_failures[t], success_of(outcome))]
    /\ transitions' = [transitions EXCEPT ![state] = new_row(state, success_of(outcome))]

\* The effect of update_transitions(state, outcome) on the state machine.
\* A state that is no key of state_success_rates raises KeyError at line 125,
\* before anything is written.
update_transitions(state, outcome) ==
    IF state \notin StateSet
    THEN UNCHANGED <<state_success_rates, consecutive_failures, transitions>>
    ELSE LET success == success_of(outcome)
         IN  /\ state_success_rates' =
                    [state_success_rates EXCEPT ![state] = new_success_rate(@, success)]
             /\ consecutive_failures' =
                    [consecutive_failures EXCEPT ![state] = new_failures(@, success)]
             /\ transitions' = [transitions EXCEPT ![state] = new_row(state, success)]

----------------------------------------------------------------------------
(* PatternRecognizer: target selection and the observation buffer *)

\* {...}.get(properties.get(key, ''), 1)
type_score(obj, key, table) ==
    IF key \in DOMAIN obj.properties /\ obj.properties[key] \in DOMAIN table
    THEN table[obj.properties[key]]
    ELSE 1

\* the empty dict a select_best_* function returns for an empty list
EmptyDict == <<>>

\* mutant of argmax: the last index holding the maximum
argmax_last(scores) ==
    CHOOSE i \in 1..Len(scores) :
        /\ \A j \in 1..Len(scores) : scores[j] <= scores[i]
        /\ \A j \in (i + 1)..Len(scores) : scores[j] < scores[i]

\* int(np.argmax(scores)): the first index holding the maximum
argmax(scores) ==
    CHOOSE i \in 1..Len(scores) :
        /\ \A j \in 1..Len(scores) : scores[j] <= scores[i]
        /\ \A j \in 1..(i - 1) : scores[j] < scores[i]

select_best_resource(resources) ==
    LET scores == [i \in 1..Len(resources) |->
                      type_score(resources[i], "resource_type", [wood |-> 1, ore |-> 2, herbs |-> 3])]
    IN  IF resources = <<>> THEN EmptyDict ELSE resources[argmax(scores)]

select_best_fishing_spot(fishing_spots) ==
    LET scores == [i \in 1..Len(fishing_spots) |->
                      type_score(fishing_spots[i], "fish_type", [common |-> 1, rare |-> 2, exotic |-> 3])]
    IN  IF fishing_spots = <<>> THEN EmptyDict ELSE fishing_spots[argmax(scores)]

Abs(x) == IF x < 0 THEN -x ELSE x

\* mutant of select_best_combat_target: the health itself as health score
select_best_combat_target_healthiest(enemies) ==
    LET prop(obj, key, default) ==
            IF key \in DOMAIN obj.properties THEN obj.properties[key] ELSE default
        scores == [i \in 1..Len(enemies) |->
                      (10 - Abs(5 - prop(enemies[i], "level", 5)))
                      + prop(enemies[i], "health", 100)]
    IN  IF enemies = <<>> THEN EmptyDict ELSE enemies[argmax(scores)]

select_best_combat_target(enemies) ==
    LET prop(obj, key, default) ==
            IF key \in DOMAIN obj.properties THEN obj.properties[key] ELSE default
        scores == [i \in 1..Len(enemies) |->
                      (10 - Abs(5 - prop(enemies[i], "level", 5)))
                      + (100 - prop(enemies[i], "health", 100))]
    IN  IF enemies = <<>> THEN EmptyDict ELSE enemies[argmax(scores)]

\* mutant of KeepLast: the slice [:n] in place of [-n:]
KeepFirst(seq, n) ==
    IF Len(seq) > n THEN SubSeq(seq, 1, n) ELSE seq

\* self.observations[-n:]
KeepLast(seq, n) ==
    IF Len(seq) > n THEN SubSeq(seq, Len(seq) - n + 1, Len(seq)) ELSE seq

\* _extract_features: the player position and the numbers of resources,
\* fishing spots and enemies nearby, with (0, 0) and [] for missing keys
extract_features(observation) ==
    LET pos == IF "player_position" \in DOMAIN observation
               THEN observation.player_position ELSE <<0, 0>>
        objs == nearby_objects_of(observation)
        count(type) == Cardinality({i \in 1..Len(objs) : objs[i].type = type})
    IN  <<pos[1], pos[2], count("resource"), count("fishing_spot"), count("enemy")>>

\* A record of the buffer is kept as its kind and the feature vector
\* _extract_features reads from it, the only thing the recognizer reads
\* from a stored record.
BufferRecord(kind, observation) == [kind |-> kind, features |-> extract_features(observation)]

\* the dict of lines 122-126: no player_position, no nearby_objects
OutcomeRecord(action, outcome) ==
    BufferRecord("outcome", [action |-> action, outcome |-> outcome, success |-> success_of(outcome)])

NoPatterns == <<>>

NoClustering == [passes |-> 0, since |-> 0]

\* n_clusters of line 9
n_clusters == 5

\* The label arrays KMeans.fit_predict can return for the buffer, as a
\* label per feature vector: records with equal vectors lie at the same
\* point and get the same label. No random_state is set, so which label a
\* cluster gets differs from run to run. Up to n_clusters distinct vectors
\* each become a centre with a label of their own; more than n_clusters
\* distinct vectors share the n_clusters labels.
fit_predict(buffer) ==
    LET points == {buffer[i].features : i \in 1..Len(buffer)}
    IN  {labels \in [points -> 0..(n_clusters - 1)] :
            IF Cardinality(points) <= n_clusters
            THEN \A v, w \in points : labels[v] = labels[w] => v = w
            ELSE \A c \in 0..(n_clusters - 1) : \E v \in points : labels[v] = c}

\* lines 46-49: every record of the buffer is appended to the list of its
\* cluster, which is created when the map has none
add_to_patterns(pats, buffer, labels) ==
    [c \in DOMAIN pats \cup {labels[v] : v \in DOMAIN labels} |->
        (IF c \in DOMAIN pats THEN pats[c] ELSE <<>>)
        \o SelectSeq(buffer, LAMBDA r : labels[r.features] = c)]

\* _update_patterns returning early below 49 records instead of 50
update_patterns_pass_from49(pats, buffer) ==
    IF Len(buffer) < 49 THEN {pats}
    ELSE {add_to_patterns(pats, buffer, labels) : labels \in fit_predict(buffer)}

\* _update_patterns: the cluster maps the pass can leave behind. Every
\* record has a feature vector (line 33 drops none), so line 36 never
\* returns for a buffer of 50 records or more.
update_patterns_pass(pats, buffer) ==
    IF Len(buffer) < 50 THEN {pats}
    ELSE {add_to_patterns(pats, buffer, labels) : labels \in fit_predict(buffer)}

\* analyze_observation on a non-empty observation: the buffers and cluster
\* maps it can leave behind, pass telling whether _update_patterns was
\* called
analyze_observation(buffer, pats, record) ==
    LET appended == Append(buffer, record)
    IN  IF Len(appended) >= 100
        THEN {[observations |-> KeepLast(appended, 1000), patterns |-> p, pass |-> TRUE] :
                 p \in update_patterns_pass(pats, appended)}
        ELSE {[observations |-> appended, patterns |-> pats, pass |-> FALSE]}

\* mutant of update_patterns: nothing is appended
update_patterns_skipped(buffer, action, outcome) == buffer

\* update_patterns: the buffer afterwards ("if action and outcome")
update_patterns(buffer, action, outcome) ==
    IF DOMAIN action # {} /\ DOMAIN outcome # {}
    THEN Append(buffer, OutcomeRecord(action, outcome))
    ELSE buffer

\* the passes made and the records appended since the last one, after a
\* call that appended so many records and made a pass or not
count_clustering(c, appended, pass) ==
    IF pass THEN [passes |-> c.passes + 1, since |-> 0]
    ELSE [c EXCEPT !.since = @ + appended]

----------------------------------------------------------------------------
(* DataCollector *)

\* store_observation: the list is cut to its last max_entries (1000) entries
store_observation(c) ==
    [c EXCEPT !.observations = IF @ + 1 > 1000 THEN 1000 ELSE @ + 1]

\* store_outcome: the outcome is appended and counted in the statistics
\* (the per-activity success averages of lines 57-68 are not kept here)
store_outcome(c) ==
    [c EXCEPT !.outcomes = IF @ + 1 > 1000 THEN 1000 ELSE @ + 1,
              !.total_actions = @ + 1]

----------------------------------------------------------------------------
(* OpenAIAnalyzer *)

\* learn_from_outcome: the entry is appended to action_history; below 10
\* entries the call returns None. From 10 entries on it builds the prompt
\* of lines 83-93, an f-string with the same literal braces as the prompt
\* of analyze_game_state (see there), which raises before the try of line
\* 95: the call raises and the history is never cut.
analyzer_learn_from_outcome(history) ==
    [raised |-> history + 1 >= 10, history |-> history + 1]


\* What the call hands back to AIBot: raised = TRUE when it ends in an
\* exception, else value is the returned analysis.
\*
\* The prompt of lines 30-40 is an f-string whose text holds the literal
\* braces of a JSON template: { "recommended_action": str, ... }. Python
\* reads them as a replacement field, the string "recommended_action" with
\* the format specification ' str, ...', and format() rejects it with
\* ValueError: Invalid format specifier. The prompt is built before the
\* try of line 42, so neither the request nor the fallback of lines 59-70
\* is ever reached and every call raises.
\* mutant of analyze_game_state: the fallback of lines 62-70 is returned
analyze_game_state_fallback(game_state, actions) ==
    [raised |-> FALSE, value |-> [recommended_action |-> "explore", risk_assessment |-> <<1, 2>>]]

\* mutant of analyze_game_state: the service answers "gather", one of the
\* actions its prompt asks for
analyze_game_state_answer(game_state, actions) ==
    [raised |-> FALSE, value |-> [recommended_action |-> "gather", risk_assessment |-> <<1, 5>>]]

\* mutant of analyze_game_state: the service answers with a high risk
analyze_game_state_risky(game_state, actions) ==
    [raised |-> FALSE, value |-> [recommended_action |-> "healing", risk_assessment |-> <<9, 10>>]]

analyze_game_state(game_state, actions) ==
    [raised |-> TRUE, value |-> [recommended_action |-> "none", risk_assessment |-> <<0, 1>>]]

----------------------------------------------------------------------------
(* Activity models: CombatManager, FishingManager and ResourceGatherer of  *)
(* src/activities. The random.random() draws of an attempt are inputs of   *)
(* the call.                                                               *)

\* a - b
RSub(a, b) == RAdd(a, <<0 - b[1], b[2]>>)

\* max(a, b)
RMax(a, b) == IF RLess(a, b) THEN b ELSE a

\* a ** n
RPow(a, n) == Rat(a[1] ^ n, a[2] ^ n)

\* the profile a level without one is given: combat.py lines 27-31, 49-53, 79-83
DefaultCombatPattern ==
    [success_rate |-> <<1, 2>>, avg_damage_taken |-> <<20, 1>>, avg_time |-> <<10, 1>>]

\* CombatManager.enemy_difficulties
enemy_difficulties == [level \in 1..5 |-> [risk |-> Rat(level, 10), reward |-> level]]

\* mutant of health_threshold: one below
health_threshold_49 == 50 - 1

\* CombatManager.health_threshold
health_threshold == 50

\* FishingManager.fishing_patterns at construction
InitialFishingPatterns ==
    [common |-> [success_rate |-> <<7, 10>>, avg_time |-> <<5, 1>>],
     rare   |-> [success_rate |-> <<2, 5>>,  avg_time |-> <<8, 1>>],
     exotic |-> [success_rate |-> <<1, 5>>,  avg_time |-> <<12, 1>>]]

\* FishingManager.fish_values
fish_values == [common |-> 1, rare |-> 3, exotic |-> 5]

\* ResourceGatherer.gathering_patterns at construction
InitialGatheringPatterns ==
    [wood  |-> [success_rate |-> <<4, 5>>,  avg_time |-> <<3, 1>>],
     ore   |-> [success_rate |-> <<7, 10>>, avg_time |-> <<4, 1>>],
     herbs |-> [success_rate |-> <<9, 10>>, avg_time |-> <<2, 1>>]]

\* ResourceGatherer.resource_values
resource_values == [wood |-> 1, ore |-> 2, herbs |-> 3]

\* self.enemy_difficulties.get(enemy_level, {'risk': 0.5, 'reward': enemy_level})
difficulty_of(enemy_level) ==
    IF enemy_level \in DOMAIN enemy_difficulties THEN enemy_difficulties[enemy_level]
    ELSE [risk |-> <<1, 2>>, reward |-> enemy_level]

\* the profile of the level overwritten with the default one
with_default_always(pats, enemy_level) ==
    [l \in DOMAIN pats \cup {enemy_level} |->
        IF l = enemy_level THEN DefaultCombatPattern ELSE pats[l]]

\* combat.py lines 26-31 and 78-83: the profiles once the level has one
with_default(pats, enemy_level) ==
    IF enemy_level \in DOMAIN pats THEN pats
    ELSE [l \in DOMAIN pats \cup {enemy_level} |->
             IF l \in DOMAIN pats THEN pats[l] ELSE DefaultCombatPattern]

NoDifficulty == [risk |-> <<0, 1>>, reward |-> 0]

\* CombatManager.evaluate_combat_target: the score returned, the profiles
\* afterwards and the difficulty used
evaluate_combat_target(pats, failures, enemy, current_health) ==
    LET enemy_level == enemy.properties.level
        pats1 == with_default(pats, enemy_level)
        pattern == pats1[enemy_level]
        difficulty == difficulty_of(enemy_level)
        failure_penalty == RMax(<<0, 1>>, Rat(failures * 2, 10))
        value == RDiv(RMul(<<difficulty.reward, 1>>, pattern.success_rate),
                      RAdd(<<1, 1>>, RMul(pattern.avg_damage_taken, difficulty.risk)))
    IN  IF current_health < health_threshold
        THEN [ret |-> <<-1, 1>>, patterns |-> pats, difficulty |-> NoDifficulty]
        ELSE [ret |-> RMax(<<0, 1>>, RSub(value, failure_penalty)),
              patterns |-> pats1, difficulty |-> difficulty]

\* line 56: pattern['success_rate'] * (0.8 ** self.consecutive_failures)
adjusted_success_rate(pattern, failures) ==
    RMul(pattern.success_rate, RPow(<<4, 5>>, failures))

\* engage_combat with a counter that a success leaves as it is
engage_failures_kept(failures, success) == IF success THEN failures ELSE failures + 1

\* lines 62-65
engage_failures(failures, success) == IF success THEN 0 ELSE failures + 1

\* CombatManager.engage_combat, draws being the three random.random()
\* values in the order they are drawn: the dict returned, the counter
\* afterwards and the probability the success was drawn with
engage_combat(pats, failures, enemy, draws) ==
    LET enemy_level == enemy.properties.level
        pattern == IF enemy_level \in DOMAIN pats THEN pats[enemy_level]
                   ELSE DefaultCombatPattern
        adjusted == adjusted_success_rate(pattern, failures)
        success == RLess(draws[1], adjusted)
    IN  [outcome |-> [success      |-> success,
                      damage_taken |-> RMul(pattern.avg_damage_taken,
                                            RAdd(<<4, 5>>, RMul(draws[2], <<2, 5>>))),
                      time_taken   |-> RMul(pattern.avg_time,
                                            RAdd(<<9, 10>>, RMul(draws[3], <<1, 5>>))),
                      enemy_level  |-> enemy_level,
                      reward       |-> difficulty_of(enemy_level).reward],
         failures |-> engage_failures(failures, success),
         adjusted |-> adjusted]

\* a success rate that a success raises by 0.2
updated_success_rate_fast(rate, success) ==
    RAdd(RMul(rate, <<9, 10>>), IF success THEN <<1, 5>> ELSE <<0, 1>>)

\* pattern['success_rate'] * 0.9 + (0.1 if outcome['success'] else 0)
updated_success_rate(rate, success) ==
    RAdd(RMul(rate, <<9, 10>>), IF success THEN <<1, 10>> ELSE <<0, 1>>)

\* pattern[...] * 0.9 + outcome[...] * 0.1
updated_average(average, sample) ==
    RAdd(RMul(average, <<9, 10>>), RMul(sample, <<1, 10>>))

\* CombatManager.update_combat_patterns: the profiles afterwards
update_combat_patterns(pats, enemy_level, outcome) ==
    LET pats1 == with_default(pats, enemy_level)
        pattern == pats1[enemy_level]
    IN  [pats1 EXCEPT ![enemy_level] =
            [success_rate     |-> updated_success_rate(pattern.success_rate, outcome.success),
             avg_damage_taken |-> updated_average(pattern.avg_damage_taken,
                                                  outcome.damage_taken),
             avg_time         |-> updated_average(pattern.avg_time, outcome.time_taken)]]

NoScore == <<0, 1>>

NoOutcome == [success |-> FALSE]

\* FishingManager.evaluate_fishing_spot: self.fish_values[fish_type] and
\* self.fishing_patterns[fish_type] raise KeyError on a type without entry
evaluate_fishing_spot(pats, fishing_spot) ==
    LET fish_type == fishing_spot.properties.fish_type
    IN  IF fish_type \notin DOMAIN fish_values \/ fish_type \notin DOMAIN pats
        THEN [raised |-> TRUE, ret |-> NoScore]
        ELSE [raised |-> FALSE,
              ret |-> RDiv(RMul(<<fish_values[fish_type], 1>>, pats[fish_type].success_rate),
                           pats[fish_type].avg_time)]

\* FishingManager.fish, draws being the two random.random() values
fish(pats, fishing_spot, draws) ==
    LET fish_type == fishing_spot.properties.fish_type
    IN  IF fish_type \notin DOMAIN pats
        THEN [raised |-> TRUE, outcome |-> NoOutcome]
        ELSE LET pattern == pats[fish_type]
                 success == RLess(draws[1], pattern.success_rate)
             IN  [raised |-> FALSE,
                  outcome |-> [success    |-> success,
                               time_taken |-> RMul(pattern.avg_time,
                                                   RAdd(<<9, 10>>, RMul(draws[2], <<1, 5>>))),
                               fish_type  |-> fish_type,
                               amount     |-> IF success THEN 1 ELSE 0]]

\* FishingManager.update_fishing_patterns: the profiles afterwards
update_fishing_patterns(pats, fish_type, outcome) ==
    IF fish_type \in DOMAIN pats
    THEN [pats EXCEPT ![fish_type] =
             [success_rate |-> updated_success_rate(@.success_rate, outcome.success),
              avg_time     |-> updated_average(@.avg_time, outcome.time_taken)]]
    ELSE pats

\* ResourceGatherer.evaluate_resource
evaluate_resource(pats, resource_obj) ==
    LET resource_type == resource_obj.properties.resource_type
    IN  IF resource_type \notin DOMAIN resource_values \/ resource_type \notin DOMAIN pats
        THEN [raised |-> TRUE, ret |-> NoScore]
        ELSE [raised |-> FALSE,
              ret |-> RMul(<<resource_values[resource_type], 1>>,
                           RDiv(pats[resource_type].success_rate,
                                pats[resource_type].avg_time))]

\* mutant of gather_resource: the drawn amount returned whatever the success
gather_resource_amount_kept(pats, resource_obj, draws, amount) ==
    LET resource_type == resource_obj.properties.resource_type
    IN  IF resource_type \notin DOMAIN pats
        THEN [raised |-> TRUE, outcome |-> NoOutcome]
        ELSE [raised |-> FALSE,
              outcome |-> [success       |-> RLess(draws[1], pats[resource_type].success_rate),
                           time_taken    |-> pats[resource_type].avg_time,
                           amount        |-> amount,
                           resource_type |-> resource_type]]

\* ResourceGatherer.gather_resource, draws being the two random.random()
\* values and amount the random.randint(1, 3) of a success
gather_resource(pats, resource_obj, draws, amount) ==
    LET resource_type == resource_obj.properties.resource_type
    IN  IF resource_type \notin DOMAIN pats
        THEN [raised |-> TRUE, outcome |-> NoOutcome]
        ELSE LET pattern == pats[resource_type]
                 success == RLess(draws[1], pattern.success_rate)
             IN  [raised |-> FALSE,
                  outcome |-> [success       |-> success,
                               time_taken    |-> RMul(pattern.avg_time,
                                                      RAdd(<<4, 5>>, RMul(draws[2], <<2, 5>>))),
                               amount        |-> IF success THEN amount ELSE 0,
                               resource_type |-> resource_type]]

\* ResourceGatherer.update_gathering_patterns: the profiles afterwards
update_gathering_patterns(pats, resource_type, outcome) ==
    IF resource_type \in DOMAIN pats
    THEN [pats EXCEPT ![resource_type] =
             [success_rate |-> updated_success_rate(@.success_rate, outcome.success),
              avg_time     |-> updated_average(@.avg_time, outcome.time_taken)]]
    ELSE pats

\* no call made yet
NoActivity ==
    [model |-> "none", op |-> "none", level |-> 0, subtype |-> "none", health |-> 0,
     raised |-> FALSE, ret |-> NoScore, difficulty |-> NoDifficulty,
     adjusted |-> NoScore, outcome |-> NoOutcome]

\* the three managers after construction
ActivitiesInit ==
    /\ combat_patterns = <<>>
    /\ combat_failures = 0
    /\ fishing_patterns = InitialFishingPatterns
    /\ gathering_patterns = InitialGatheringPatterns
    /\ engagements = <<>>
    /\ activity = NoActivity
    /\ rate64 = <<>>

----------------------------------------------------------------------------
(* The success rate as Python computes it: a float is an IEEE 754 binary64 *)
(* number, every operation rounding its exact result to the nearest        *)
(* number of 53 significant bits, ties to the even one. A positive         *)
(* binary64 number is kept as [m, e], standing for m * 2^e with            *)
(* 2^52 <= m < 2^53; m and the exact intermediate results are natural      *)
(* numbers kept as sequences of limbs below 2^15, least significant first. *)

Limb == 2 ^ 15

LimbAt(a, i) == IF i <= Len(a) THEN a[i] ELSE 0

\* the number without limbs of 0 at its top
RECURSIVE Trim(_)
Trim(a) ==
    IF a = <<>> \/ a[Len(a)] # 0 THEN a ELSE Trim(SubSeq(a, 1, Len(a) - 1))

\* a + b
BigAdd(a, b) ==
    LET RECURSIVE From(_, _)
        From(i, carry) ==
            IF i > Len(a) /\ i > Len(b)
            THEN (IF carry = 0 THEN <<>> ELSE <<carry>>)
            ELSE LET sum == LimbAt(a, i) + LimbAt(b, i) + carry
                 IN  <<sum % Limb>> \o From(i + 1, sum \div Limb)
    IN  From(1, 0)

\* a * k for a k below 2^15
BigTimes(a, k) ==
    LET RECURSIVE From(_, _)
        From(i, carry) ==
            IF i > Len(a)
            THEN (IF carry = 0 THEN <<>> ELSE <<carry>>)
            ELSE LET product == a[i] * k + carry
                 IN  <<product % Limb>> \o From(i + 1, product \div Limb)
    IN  From(1, 0)

\* a * b
BigMul(a, b) ==
    LET RECURSIVE From(_)
        From(i) == IF i > Len(b) THEN <<>>
                   ELSE BigAdd(BigTimes(a, b[i]), <<0>> \o From(i + 1))
    IN  From(1)

\* quotient and remainder of a by k, for a k below 2^15
BigDiv(a, k) ==
    LET RECURSIVE From(_, _)
        From(i, rem) ==
            IF i = 0 THEN [q |-> <<>>, r |-> rem]
            ELSE LET cur == rem * Limb + a[i]
                     rest == From(i - 1, cur % k)
                 IN  [q |-> Append(rest.q, cur \div k), r |-> rest.r]
    IN  From(Len(a), 0)

\* a * 2^s
ShiftLeft(a, s) == [j \in 1..(s \div 15) |-> 0] \o BigTimes(a, 2 ^ (s % 15))

\* a \div 2^s
ShiftRight(a, s) ==
    LET q == s \div 15
        r == s % 15
    IN  IF Len(a) <= q THEN <<>>
        ELSE [j \in 1..(Len(a) - q) |->
                 LimbAt(a, j + q) \div 2 ^ r + (LimbAt(a, j + q + 1) % 2 ^ r) * 2 ^ (15 - r)]

\* bit i of a, bit 0 being the lowest
Bit(a, i) == (LimbAt(a, i \div 15 + 1) \div 2 ^ (i % 15)) % 2

\* the number of bits of a
BitLen(a) ==
    LET t == Trim(a)
    IN  IF t = <<>> THEN 0
        ELSE 15 * (Len(t) - 1) + CHOOSE k \in 1..15 : 2 ^ (k - 1) <= t[Len(t)] /\ t[Len(t)] < 2 ^ k

\* the binary64 number nearest to n * 2^e, n > 0: round to nearest, ties
\* to even
RoundToDouble(n, e) ==
    LET len == BitLen(n)
    IN  IF len <= 53
        THEN [m |-> Trim(ShiftLeft(n, 53 - len)), e |-> e - (53 - len)]
        ELSE LET s == len - 53
                 q == ShiftRight(n, s)
                 up == /\ Bit(n, s - 1) = 1
                       /\ \/ Bit(q, 0) = 1
                          \/ \E i \in 0..(s - 2) : Bit(n, i) = 1
                 r == IF up THEN BigAdd(q, <<1>>) ELSE q
             IN  IF BitLen(r) > 53
                 THEN [m |-> Trim(ShiftRight(r, 1)), e |-> e + s + 1]
                 ELSE [m |-> Trim(r), e |-> e + s]

\* x * y
FMul(x, y) == RoundToDouble(BigMul(x.m, y.m), x.e + y.e)

\* x + y
FAdd(x, y) ==
    LET e == IF x.e < y.e THEN x.e ELSE y.e
    IN  RoundToDouble(BigAdd(ShiftLeft(x.m, x.e - e), ShiftLeft(y.m, y.e - e)), e)

\* x < y
FLess(x, y) ==
    \/ x.e < y.e
    \/ /\ x.e = y.e
       /\ \E i \in 1..Len(x.m) : /\ x.m[i] < y.m[i]
                                 /\ \A j \in (i + 1)..Len(x.m) : x.m[j] = y.m[j]

\* the float of a literal worth n / d, 2^-10 < n / d < 2^10: the binary64
\* number nearest to it
Double(n, d) ==
    LET scaled == BigDiv(ShiftLeft(<<n>>, 64), d)
    IN  RoundToDouble(BigAdd(ShiftLeft(scaled.q, 1), IF scaled.r = 0 THEN <<>> ELSE <<1>>),
                      0 - 65)

\* a success rate that a success multiplies by 0.8
updated_success_rate64_steep(rate, success) ==
    LET decayed == FMul(rate, Double(8, 10))
    IN  IF success THEN FAdd(decayed, Double(1, 10)) ELSE decayed

\* pattern['success_rate'] * 0.9 + (0.1 if outcome['success'] else 0), the
\* sum with the integer 0 being the product itself
updated_success_rate64(rate, success) ==
    LET decayed == FMul(rate, Double(9, 10))
    IN  IF success THEN FAdd(decayed, Double(1, 10)) ELSE decayed

----------------------------------------------------------------------------
(* GameAIInterface: the window that starts and stops the control loop *)

\* GameAIInterface.__init__: is_running = False, no thread started
InterfaceInit ==
    /\ is_running = FALSE
    /\ ai_threads = <<>>
    /\ is_recording = FALSE
    /\ capture_threads = <<>>

----------------------------------------------------------------------------
(* AIBot *)

SelectByType(objs, type) == SelectSeq(objs, LAMBDA obj : obj.type = type)

handle_gathering(objs) ==
    LET resources == SelectByType(objs, "resource")
    IN  IF resources # <<>>
        THEN LET target == select_best_resource(resources)
             IN  [action |-> "gather", target |-> target, position |-> target.position]
        ELSE [action |-> "explore"]

handle_fishing(objs) ==
    LET fishing_spots == SelectByType(objs, "fishing_spot")
    IN  IF fishing_spots # <<>>
        THEN LET target == select_best_fishing_spot(fishing_spots)
             IN  [action |-> "fish", target |-> target, position |-> target.position]
        ELSE [action |-> "explore"]

handle_combat(objs) ==
    LET enemies == SelectByType(objs, "enemy")
    IN  IF enemies # <<>>
        THEN LET target == select_best_combat_target(enemies)
             IN  [action |-> "combat", target |-> target, position |-> target.position]
        ELSE [action |-> "explore"]

\* mutant of action_for: the healing branch of lines 138-140 left out
action_for_no_healing(state, objs) ==
    CASE state = "gathering" -> handle_gathering(objs)
      [] state = "fishing"   -> handle_fishing(objs)
      [] state = "combat"    -> handle_combat(objs)
      [] OTHER               -> [action |-> "explore"]

\* lines 127-140: the action generated in a state
action_for(state, objs) ==
    CASE state = "gathering" -> handle_gathering(objs)
      [] state = "fishing"   -> handle_fishing(objs)
      [] state = "combat"    -> handle_combat(objs)
      [] state = "healing"   -> [action |-> "healing"]
      [] OTHER               -> [action |-> "explore"]

\* last: op is the operation called, cs the value of current_state before it,
\* ret the value after it, branch the return statement get_next_state took,
\* success the outcome's success, raised whether the collaborator the
\* operation calls (advisory service, state machine) raised.
\* action is the action decide_action returned, forwards the operations
\* learn_from_outcome handed the outcome to, in the order of the calls.
NoAction == [action |-> "none"]

NoCall == [op |-> "init", cs |-> "idle", branch |-> "none", success |-> FALSE,
           ret |-> "idle", raised |-> FALSE, action |-> NoAction, forwards |-> <<>>]

\* lines 203-209: the operations learn_from_outcome calls with the outcome,
\* in order. AIBot holds no activity model (lines 12-29): the classes of
\* src/activities are never instantiated. update_transitions raises for a
\* state that is no key of its tables, which ends the handler.
forwards_of(state) ==
    IF state \in StateSet
    THEN <<"PatternRecognizer.update_patterns", "StateMachine.update_transitions",
           "DataCollector.store_outcome", "OpenAIAnalyzer.learn_from_outcome">>
    ELSE <<"PatternRecognizer.update_patterns", "StateMachine.update_transitions">>

NoStreak == [state |-> "idle", len |-> 0]

NoSelection == [fn |-> "none", input |-> <<>>, done |-> FALSE, result |-> EmptyDict]

Init ==
    /\ current_state = "idle"
    /\ current_target = "None"
    /\ recent_actions = <<>>
    /\ transitions = InitialTransitions
    /\ state_timers = [s \in StateSet |-> 0]
    /\ state_success_rates = [s \in StateSet |-> <<1, 2>>]
    /\ consecutive_failures = [s \in StateSet |-> 0]
    /\ observations = <<>>
    /\ patterns = NoPatterns
    /\ clustering = NoClustering
    /\ collected = [observations |-> 0, outcomes |-> 0, total_actions |-> 0]
    /\ action_history = 0
    /\ returned = <<>>
    /\ selection = NoSelection
    /\ last = NoCall
    /\ streak = NoStreak
    /\ calls = 0
    /\ ActivitiesInit
    /\ InterfaceInit

\* AIBot.observe_environment(game_state). An exception of the advisory
\* call ends the handler at line 104 with current_state as it was.
observe_environment(game_state) ==
    /\ collected' = store_observation(collected)
    /\ \E r \in analyze_observation(observations, patterns,
                                     BufferRecord("observation", game_state)) :
          /\ observations' = r.observations
          /\ patterns' = r.patterns
          /\ clustering' = count_clustering(clustering, 1, r.pass)
    /\ LET analysis == analyze_game_state(game_state, recent_actions)
           health == player_health(game_state)
       IN  /\ current_state' =
                IF analysis.raised THEN current_state
                ELSE IF RLess(<<7, 10>>, analysis.value.risk_assessment) /\ health < 70
                THEN "healing"
                ELSE IF analysis.value.recommended_action # current_state
                THEN analysis.value.recommended_action
                ELSE current_state
           /\ last' = [op |-> "observe", cs |-> current_state, branch |-> "none",
                       success |-> FALSE, ret |-> current_state', raised |-> analysis.raised,
                       action |-> NoAction, forwards |-> <<>>]
    /\ UNCHANGED activity_vars
    /\ UNCHANGED <<current_target, recent_actions, transitions, state_timers,
                   state_success_rates, consecutive_failures, action_history,
                   returned, selection, streak>>

\* observe_environment as one call of a run of at most MaxCalls calls
ObserveEnvironment(game_state) ==
    /\ calls < MaxCalls
    /\ calls' = calls + 1
    /\ observe_environment(game_state)
    /\ UNCHANGED interface_vars

\* AIBot.decide_action(game_state). When get_next_state raises, the handler
\* ends at line 147 and returns the default action without storing it.
decide_action(game_state) ==
    /\ \E r \in get_next_state(current_state, game_state) :
          LET action == IF r.raised THEN [action |-> "explore"]
                        ELSE action_for(r.ret, nearby_objects_of(game_state))
          IN  /\ state_timers' = r.timers
              /\ consecutive_failures' = r.failures
              /\ current_state' = r.ret
              /\ current_target' = IF r.ret # current_state THEN "None" ELSE current_target
              /\ recent_actions' =
                    IF r.raised THEN recent_actions
                    ELSE KeepLast(Append(recent_actions, action), 10)
              /\ returned' = Append(returned, action)
              /\ last' = [op |-> "decide", cs |-> current_state, branch |-> r.branch,
                          success |-> FALSE, ret |-> r.ret, raised |-> r.raised,
                          action |-> action, forwards |-> <<>>]
    /\ streak' = NoStreak
    /\ UNCHANGED <<activity_vars, interface_vars>>
    /\ UNCHANGED <<transitions, state_success_rates, observations, patterns,
                   clustering, collected, action_history, selection>>

\* decide_action as one call of a run of at most MaxCalls calls
DecideAction(game_state) ==
    /\ calls < MaxCalls
    /\ calls' = calls + 1
    /\ decide_action(game_state)

\* The snapshots observe_environment is called on. The advisory call fails
\* on every snapshot, so snapshots differ to observe_environment only in
\* the record the recognizer stores; the runs of the recognizer below
\* store records of every kind.
ObservedGameStates ==
    {gs \in GameStates : gs.nearby_objects = <<Wood, Spot, Enemy(5)>>}

LearnActions == {[action |-> "explore"], [action |-> "gather", target |-> Wood, position |-> Wood.position]}

\* AIBot.learn_from_outcome(action, outcome). The calls are made in the
\* order of lines 203-209; an exception in one of them ends the handler
\* (line 219). The analyzer returns None or raises, so lines 211-218 do
\* nothing.
LearnFromOutcome(action, outcome) ==
    /\ calls < MaxCalls
    /\ calls' = calls + 1
    /\ observations' = update_patterns(observations, action, outcome)
    /\ clustering' = count_clustering(clustering, Len(observations') - Len(observations), FALSE)
    /\ UNCHANGED patterns
    /\ update_transitions(current_state, outcome)
    /\ IF current_state \in StateSet
       THEN /\ collected' = store_outcome(collected)
            /\ action_history' = analyzer_learn_from_outcome(action_history).history
       ELSE UNCHANGED <<collected, action_history>>
    /\ streak' =
          IF success_of(outcome) \/ current_state \notin StateSet THEN NoStreak
          ELSE [state |-> current_state,
                len |-> IF streak.state = current_state /\ streak.len > 0
                        THEN (IF streak.len < 3 THEN streak.len + 1 ELSE 3)
                        ELSE 1]
    /\ last' = [op |-> "learn", cs |-> current_state, branch |-> "none",
                success |-> success_of(outcome), ret |-> current_state,
                raised |-> current_state \notin StateSet, action |-> NoAction,
                forwards |-> forwards_of(current_state)]
    /\ UNCHANGED <<activity_vars, interface_vars>>
    /\ UNCHANGED <<current_state, current_target, recent_actions, state_timers,
                   returned, selection>>

Next ==
    \/ \E game_state \in ObservedGameStates : ObserveEnvironment(game_state)
    \/ \E game_state \in GameStates : DecideAction(game_state)
    \/ \E action \in LearnActions, outcome \in Outcomes : LearnFromOutcome(action, outcome)

Spec == Init /\ [][Next]_vars

----------------------------------------------------------------------------
(* Feedback from the environment: the outcomes learn_from_outcome is       *)
(* handed are those GameEnvironment.interact_with_object returns for a     *)
(* resource and for an enemy, which have no success field.                 *)

\* GameEnvironment.interact_with_object(obj), number being the value of
\* random.randint and draw that of random.random()
interact_with_object(obj, number, draw) ==
    CASE obj.type = "resource" ->
             [action |-> "gather", resource_type |-> obj.properties.resource_type,
              amount |-> number]
      [] obj.type = "fishing_spot" ->
             [action |-> "fish", fish_type |-> obj.properties.fish_type,
              success |-> RLess(<<3, 10>>, draw)]
      [] obj.type = "enemy" ->
             [action |-> "combat", enemy_level |-> obj.properties.level,
              damage_dealt |-> number]
      [] OTHER -> <<>>

\* run_ai_loop, lines 343-346: the action's target is interacted with and
\* the outcome learned
Feedback(target, number) ==
    LearnFromOutcome([action   |-> IF target.type = "resource" THEN "gather" ELSE "combat",
                      target   |-> target,
                      position |-> target.position],
                     interact_with_object(target, number, <<0, 1>>))

NextFeedback ==
    \/ \E game_state \in GameStates : DecideAction(game_state)
    \/ \E number \in {1, 5} : Feedback(Wood, number)
    \/ \E number \in {10, 30} : Feedback(Enemy(6), number)

SpecFeedback == Init /\ [][NextFeedback]_vars

----------------------------------------------------------------------------
(* Runs at low health: every snapshot handed to decide_action reports a    *)
(* player health below 50.                                                 *)

NextLowHealth ==
    \/ \E game_state \in {gs \in GameStates : gs.player_status.health < 50} :
          DecideAction(game_state)
    \/ \E action \in LearnActions, outcome \in Outcomes : LearnFromOutcome(action, outcome)

SpecLowHealth == Init /\ [][NextLowHealth]_vars

----------------------------------------------------------------------------
(* Target selection: the select_best_* functions of the recognizer called  *)
(* on lists of objects of one kind. The object at index i stands at        *)
(* <<i, i>>, so that equal objects at different indexes are told apart.    *)

\* objects in one list
MaxObjects == 3

ResourceAt(resource_type, i) ==
    [type |-> "resource", position |-> <<i, i>>, properties |-> [resource_type |-> resource_type]]

SpotAt(fish_type, i) ==
    [type |-> "fishing_spot", position |-> <<i, i>>, properties |-> [fish_type |-> fish_type]]

EnemyAt(level, health, i) ==
    [type |-> "enemy", position |-> <<i, i>>, properties |-> [level |-> level, health |-> health]]

\* the lists of at most MaxObjects resources of the three types
ResourceLists ==
    UNION {{[i \in 1..k |-> ResourceAt(f[i], i)] : f \in [1..k -> {"wood", "ore", "herbs"}]} :
              k \in 0..MaxObjects}

\* the lists of at most MaxObjects fishing spots of the three types
SpotLists ==
    UNION {{[i \in 1..k |-> SpotAt(f[i], i)] : f \in [1..k -> {"common", "rare", "exotic"}]} :
              k \in 0..MaxObjects}

\* the lists of at most MaxObjects enemies, of levels on both sides of 5
\* and healths that tie with a level difference
EnemyLists ==
    UNION {{[i \in 1..k |-> EnemyAt(f[i][1], f[i][2], i)] :
               f \in [1..k -> {4, 5, 6} \X {20, 99, 100}]} :
              k \in 0..MaxObjects}

\* a call about to be made: the function and its argument
Call(fn, input) == [fn |-> fn, input |-> input, done |-> FALSE, result |-> EmptyDict]

Calls ==
    {Call("select_best_resource", resources) : resources \in ResourceLists}
    \cup {Call("select_best_fishing_spot", fishing_spots) : fishing_spots \in SpotLists}
    \cup {Call("select_best_combat_target", enemies) : enemies \in EnemyLists}

\* a recognizer as constructed, and one call to make on it
InitSelect ==
    /\ current_state = "idle"
    /\ current_target = "None"
    /\ recent_actions = <<>>
    /\ transitions = InitialTransitions
    /\ state_timers = [s \in StateSet |-> 0]
    /\ state_success_rates = [s \in StateSet |-> <<1, 2>>]
    /\ consecutive_failures = [s \in StateSet |-> 0]
    /\ observations = <<>>
    /\ patterns = NoPatterns
    /\ clustering = NoClustering
    /\ collected = [observations |-> 0, outcomes |-> 0, total_actions |-> 0]
    /\ action_history = 0
    /\ returned = <<>>
    /\ selection \in Calls
    /\ last = NoCall
    /\ streak = NoStreak
    /\ calls = 0
    /\ ActivitiesInit
    /\ InterfaceInit

SelectBestResource ==
    /\ selection.fn = "select_best_resource"
    /\ ~selection.done
    /\ selection' = [selection EXCEPT !.done = TRUE,
                                      !.result = select_best_resource(selection.input)]
    /\ UNCHANGED <<activity_vars, interface_vars>>
    /\ UNCHANGED <<current_state, current_target, recent_actions, transitions,
                   state_timers, state_success_rates, consecutive_failures,
                   observations, patterns, clustering, collected, action_history,
                   returned, last, streak, calls>>

SelectBestFishingSpot ==
    /\ selection.fn = "select_best_fishing_spot"
    /\ ~selection.done
    /\ selection' = [selection EXCEPT !.done = TRUE,
                                      !.result = select_best_fishing_spot(selection.input)]
    /\ UNCHANGED <<activity_vars, interface_vars>>
    /\ UNCHANGED <<current_state, current_target, recent_actions, transitions,
                   state_timers, state_success_rates, consecutive_failures,
                   observations, patterns, clustering, collected, action_history,
                   returned, last, streak, calls>>

SelectBestCombatTarget ==
    /\ selection.fn = "select_best_combat_target"
    /\ ~selection.done
    /\ selection' = [selection EXCEPT !.done = TRUE,
                                      !.result = select_best_combat_target(selection.input)]
    /\ UNCHANGED <<activity_vars, interface_vars>>
    /\ UNCHANGED <<current_state, current_target, recent_actions, transitions,
                   state_timers, state_success_rates, consecutive_failures,
                   observations, patterns, clustering, collected, action_history,
                   returned, last, streak, calls>>

NextSelect ==
    \/ SelectBestResource
    \/ SelectBestFishingSpot
    \/ SelectBestCombatTarget

SpecSelect == InitSelect /\ [][NextSelect]_vars

----------------------------------------------------------------------------
(* Runs of the recognizer: analyze_observation and update_patterns called  *)
(* on a recognizer whose buffer earlier calls have filled. No clustering   *)
(* pass has been made on the buffers the runs start from: each has had     *)
(* fewer than 100 records at every analyze_observation call.               *)

\* calls made to the recognizer in one run
MaxRecognizerCalls == 2

\* the snapshot the control loop observes with the player at <<x, 0>>:
\* nothing is nearby at the origin, one object of each kind elsewhere
ObservationAt(x) ==
    [nearby_objects  |-> IF x = 0 THEN <<>> ELSE <<Wood, Spot, Enemy(5)>>,
     player_position |-> <<x, 0>>,
     player_status   |-> [health |-> 100]]

\* the buffer after n analyze_observation calls, the player moving over
\* five positions: five feature vectors, the one of the origin being the
\* vector of an outcome record as well
Observed(n) == [i \in 1..n |-> BufferRecord("observation", ObservationAt(i % 5))]

\* the buffer after n more update_patterns calls
Learned(buffer, n) ==
    buffer \o [i \in 1..n |-> OutcomeRecord([action |-> "explore"], [success |-> TRUE])]

\* buffers one record short of the first clustering pass and one record
\* short of the capacity of 1000
FilledBuffers == {Observed(99), Learned(Observed(99), 900)}

RecognizerObservations == {ObservationAt(0)}

InitRecognizer ==
    /\ current_state = "idle"
    /\ current_target = "None"
    /\ recent_actions = <<>>
    /\ transitions = InitialTransitions
    /\ state_timers = [s \in StateSet |-> 0]
    /\ state_success_rates = [s \in StateSet |-> <<1, 2>>]
    /\ consecutive_failures = [s \in StateSet |-> 0]
    /\ observations \in FilledBuffers
    /\ patterns = NoPatterns
    /\ clustering = [passes |-> 0, since |-> Len(observations)]
    /\ collected = [observations |-> 0, outcomes |-> 0, total_actions |-> 0]
    /\ action_history = 0
    /\ returned = <<>>
    /\ selection = NoSelection
    /\ last = NoCall
    /\ streak = NoStreak
    /\ calls = 0
    /\ ActivitiesInit
    /\ InterfaceInit

\* PatternRecognizer.analyze_observation(observation)
AnalyzeObservation(observation) ==
    /\ calls < MaxRecognizerCalls
    /\ calls' = calls + 1
    /\ \E r \in analyze_observation(observations, patterns,
                                     BufferRecord("observation", observation)) :
          /\ observations' = r.observations
          /\ patterns' = r.patterns
          /\ clustering' = count_clustering(clustering, 1, r.pass)
    /\ last' = [NoCall EXCEPT !.op = "analyze_observation"]
    /\ UNCHANGED <<activity_vars, interface_vars>>
    /\ UNCHANGED <<current_state, current_target, recent_actions, transitions,
                   state_timers, state_success_rates, consecutive_failures,
                   collected, action_history, returned, selection, streak>>

\* PatternRecognizer.update_patterns(action, outcome)
UpdatePatterns(action, outcome) ==
    /\ calls < MaxRecognizerCalls
    /\ calls' = calls + 1
    /\ observations' = update_patterns(observations, action, outcome)
    /\ clustering' = count_clustering(clustering, Len(observations') - Len(observations), FALSE)
    /\ last' = [NoCall EXCEPT !.op = "update_patterns"]
    /\ UNCHANGED <<activity_vars, interface_vars>>
    /\ UNCHANGED <<current_state, current_target, recent_actions, transitions,
                   state_timers, state_success_rates, consecutive_failures, patterns,
                   collected, action_history, returned, selection, streak>>

NextRecognizer ==
    \/ \E observation \in RecognizerObservations : AnalyzeObservation(observation)
    \/ \E action \in LearnActions, outcome \in Outcomes : UpdatePatterns(action, outcome)

SpecRecognizer == InitRecognizer /\ [][NextRecognizer]_vars

----------------------------------------------------------------------------
(* Clustering passes on a short buffer: _update_patterns called on a       *)
(* recognizer that has seen fewer than 100 records, so that                *)
(* analyze_observation has not made a pass yet, between update_patterns    *)
(* calls that take the buffer over the 50 records the pass asks for.       *)

\* calls made to the recognizer in one run
MaxPasses == 2

\* an empty buffer and buffers one and two records short of 50
ShortBuffers == {Observed(0), Observed(48), Observed(49)}

InitShort ==
    /\ current_state = "idle"
    /\ current_target = "None"
    /\ recent_actions = <<>>
    /\ transitions = InitialTransitions
    /\ state_timers = [s \in StateSet |-> 0]
    /\ state_success_rates = [s \in StateSet |-> <<1, 2>>]
    /\ consecutive_failures = [s \in StateSet |-> 0]
    /\ observations \in ShortBuffers
    /\ patterns = NoPatterns
    /\ clustering = [passes |-> 0, since |-> Len(observations)]
    /\ collected = [observations |-> 0, outcomes |-> 0, total_actions |-> 0]
    /\ action_history = 0
    /\ returned = <<>>
    /\ selection = NoSelection
    /\ last = NoCall
    /\ streak = NoStreak
    /\ calls = 0
    /\ ActivitiesInit
    /\ InterfaceInit

\* PatternRecognizer._update_patterns()
UpdatePatternsPass ==
    /\ calls < MaxPasses
    /\ calls' = calls + 1
    /\ patterns' \in update_patterns_pass(patterns, observations)
    /\ clustering' = count_clustering(clustering, 0, Len(observations) >= 50)
    /\ last' = [NoCall EXCEPT !.op = "_update_patterns"]
    /\ UNCHANGED <<activity_vars, interface_vars>>
    /\ UNCHANGED <<current_state, current_target, recent_actions, transitions,
                   state_timers, state_success_rates, consecutive_failures, observations,
                   collected, action_history, returned, selection, streak>>

\* PatternRecognizer.update_patterns(action, outcome) on the short buffer
UpdateShort(action, outcome) ==
    /\ calls < MaxPasses
    /\ calls' = calls + 1
    /\ observations' = update_patterns(observations, action, outcome)
    /\ clustering' = count_clustering(clustering, Len(observations') - Len(observations), FALSE)
    /\ last' = [NoCall EXCEPT !.op = "update_patterns"]
    /\ UNCHANGED <<activity_vars, interface_vars>>
    /\ UNCHANGED <<current_state, current_target, recent_actions, transitions,
                   state_timers, state_success_rates, consecutive_failures, patterns,
                   collected, action_history, returned, selection, streak>>

NextShort ==
    \/ UpdatePatternsPass
    \/ \E action \in LearnActions, outcome \in Outcomes : UpdateShort(action, outcome)

SpecShort == InitShort /\ [][NextShort]_vars

----------------------------------------------------------------------------
(* Long runs of decide_action: the control loop calling decide_action once *)
(* per tick, on snapshots with all three kinds of object nearby and health *)
(* on either side of the override threshold, or with a dangerous enemy.    *)

\* decide_action calls made in one run
MaxDecides == 11

TickGameStates ==
    {gs \in GameStates : \/ /\ gs.nearby_objects = <<Wood, Spot, Enemy(5)>>
                            /\ gs.player_status.health \in {49, 51}
                         \/ /\ gs.nearby_objects = <<Enemy(6)>>
                            /\ gs.player_status.health = 51}

Tick(game_state) ==
    /\ calls < MaxDecides
    /\ calls' = calls + 1
    /\ decide_action(game_state)

NextTicks == \E game_state \in TickGameStates : Tick(game_state)

SpecTicks == Init /\ [][NextTicks]_vars

----------------------------------------------------------------------------
(* Learning runs: evaluate, attempt and update calls made to the three     *)
(* activity models, in any order and on any subtype, next to               *)
(* update_transitions calls made to the state machine.                     *)

\* calls made in one run
MaxActivityCalls == 3

\* the variables of the bot that no call to an activity model touches
bot_vars == <<current_state, current_target, recent_actions, state_timers,
              observations, patterns, clustering, collected, action_history,
              returned, selection, last, streak>>

\* a level of the difficulty table and one beyond it
EnemyLevels == {5, 6}

\* a fish type with a profile and one without
FishTypes == {"exotic", "legendary"}

\* a resource type with a profile and one without
ResourceTypes == {"herbs", "gold"}


\* the values random.random(), which lies in [0, 1), gives during one
\* attempt: all at the low end, or all near the high end
Draws == {<<<<0, 1>>, <<0, 1>>, <<0, 1>>>>, <<<<19, 20>>, <<19, 20>>, <<19, 20>>>>}

\* outcomes handed to the update operations, with cost and time >= 0
UpdateOutcomes ==
    {[success |-> success, damage_taken |-> cost[1], time_taken |-> cost[2]] :
        success \in BOOLEAN, cost \in {<<<<0, 1>>, <<0, 1>>>>, <<<<24, 1>>, <<11, 1>>>>}}

\* CombatManager.evaluate_combat_target(enemy, current_health)
EvaluateCombatTarget(enemy, current_health) ==
    /\ calls < MaxActivityCalls
    /\ calls' = calls + 1
    /\ LET r == evaluate_combat_target(combat_patterns, combat_failures, enemy, current_health)
       IN  /\ combat_patterns' = r.patterns
           /\ activity' = [NoActivity EXCEPT !.model = "combat", !.op = "evaluate",
                                             !.level = enemy.properties.level,
                                             !.health = current_health,
                                             !.ret = r.ret, !.difficulty = r.difficulty]
    /\ UNCHANGED <<combat_failures, fishing_patterns, gathering_patterns, engagements, rate64>>
    /\ UNCHANGED <<bot_vars, transitions, state_success_rates, consecutive_failures,
                   interface_vars>>

\* CombatManager.engage_combat(enemy)
EngageCombat(enemy) ==
    /\ calls < MaxActivityCalls
    /\ calls' = calls + 1
    /\ \E draws \in Draws :
          LET r == engage_combat(combat_patterns, combat_failures, enemy, draws)
          IN  /\ combat_failures' = r.failures
              /\ engagements' = Append(engagements, r.outcome.success)
              /\ activity' = [NoActivity EXCEPT !.model = "combat", !.op = "attempt",
                                                !.level = enemy.properties.level,
                                                !.adjusted = r.adjusted,
                                                !.outcome = r.outcome]
    /\ UNCHANGED <<combat_patterns, fishing_patterns, gathering_patterns, rate64>>
    /\ UNCHANGED <<bot_vars, transitions, state_success_rates, consecutive_failures,
                   interface_vars>>

\* CombatManager.update_combat_patterns(enemy_level, outcome)
UpdateCombatPatterns(enemy_level, outcome) ==
    /\ calls < MaxActivityCalls
    /\ calls' = calls + 1
    /\ combat_patterns' = update_combat_patterns(combat_patterns, enemy_level, outcome)
    /\ activity' = [NoActivity EXCEPT !.model = "combat", !.op = "update",
                                      !.level = enemy_level, !.outcome = outcome]
    /\ UNCHANGED <<combat_failures, fishing_patterns, gathering_patterns, engagements, rate64>>
    /\ UNCHANGED <<bot_vars, transitions, state_success_rates, consecutive_failures,
                   interface_vars>>

\* FishingManager.evaluate_fishing_spot(fishing_spot)
EvaluateFishingSpot(fishing_spot) ==
    /\ calls < MaxActivityCalls
    /\ calls' = calls + 1
    /\ LET r == evaluate_fishing_spot(fishing_patterns, fishing_spot)
       IN  activity' = [NoActivity EXCEPT !.model = "fishing", !.op = "evaluate",
                                          !.subtype = fishing_spot.properties.fish_type,
                                          !.raised = r.raised, !.ret = r.ret]
    /\ UNCHANGED <<combat_patterns, combat_failures, fishing_patterns, gathering_patterns,
                   engagements, rate64>>
    /\ UNCHANGED <<bot_vars, transitions, state_success_rates, consecutive_failures,
                   interface_vars>>

\* FishingManager.fish(fishing_spot)
Fish(fishing_spot) ==
    /\ calls < MaxActivityCalls
    /\ calls' = calls + 1
    /\ \E draws \in Draws :
          LET r == fish(fishing_patterns, fishing_spot, draws)
          IN  activity' = [NoActivity EXCEPT !.model = "fishing", !.op = "attempt",
                                             !.subtype = fishing_spot.properties.fish_type,
                                             !.raised = r.raised, !.outcome = r.outcome]
    /\ UNCHANGED <<combat_patterns, combat_failures, fishing_patterns, gathering_patterns,
                   engagements, rate64>>
    /\ UNCHANGED <<bot_vars, transitions, state_success_rates, consecutive_failures,
                   interface_vars>>

\* FishingManager.update_fishing_patterns(fish_type, outcome)
UpdateFishingPatterns(fish_type, outcome) ==
    /\ calls < MaxActivityCalls
    /\ calls' = calls + 1
    /\ fishing_patterns' = update_fishing_patterns(fishing_patterns, fish_type, outcome)
    /\ activity' = [NoActivity EXCEPT !.model = "fishing", !.op = "update",
                                      !.subtype = fish_type, !.outcome = outcome]
    /\ UNCHANGED <<combat_patterns, combat_failures, gathering_patterns, engagements, rate64>>
    /\ UNCHANGED <<bot_vars, transitions, state_success_rates, consecutive_failures,
                   interface_vars>>

\* ResourceGatherer.evaluate_resource(resource_obj)
EvaluateResource(resource_obj) ==
    /\ calls < MaxActivityCalls
    /\ calls' = calls + 1
    /\ LET r == evaluate_resource(gathering_patterns, resource_obj)
       IN  activity' = [NoActivity EXCEPT !.model = "gathering", !.op = "evaluate",
                                          !.subtype = resource_obj.properties.resource_type,
                                          !.raised = r.raised, !.ret = r.ret]
    /\ UNCHANGED <<combat_patterns, combat_failures, fishing_patterns, gathering_patterns,
                   engagements, rate64>>
    /\ UNCHANGED <<bot_vars, transitions, state_success_rates, consecutive_failures,
                   interface_vars>>

\* ResourceGatherer.gather_resource(resource_obj)
GatherResource(resource_obj) ==
    /\ calls < MaxActivityCalls
    /\ calls' = calls + 1
    /\ \E draws \in Draws, amount \in 1..3 :
          LET r == gather_resource(gathering_patterns, resource_obj, draws, amount)
          IN  activity' = [NoActivity EXCEPT !.model = "gathering", !.op = "attempt",
                                             !.subtype = resource_obj.properties.resource_type,
                                             !.raised = r.raised, !.outcome = r.outcome]
    /\ UNCHANGED <<combat_patterns, combat_failures, fishing_patterns, gathering_patterns,
                   engagements, rate64>>
    /\ UNCHANGED <<bot_vars, transitions, state_success_rates, consecutive_failures,
                   interface_vars>>

\* ResourceGatherer.update_gathering_patterns(resource_type, outcome)
UpdateGatheringPatterns(resource_type, outcome) ==
    /\ calls < MaxActivityCalls
    /\ calls' = calls + 1
    /\ gathering_patterns' =
          update_gathering_patterns(gathering_patterns, resource_type, outcome)
    /\ activity' = [NoActivity EXCEPT !.model = "gathering", !.op = "update",
                                      !.subtype = resource_type, !.outcome = outcome]
    /\ UNCHANGED <<combat_patterns, combat_failures, fishing_patterns, engagements, rate64>>
    /\ UNCHANGED <<bot_vars, transitions, state_success_rates, consecutive_failures,
                   interface_vars>>

\* StateMachine.update_transitions(state, outcome)
UpdateTransitions(state, outcome) ==
    /\ calls < MaxActivityCalls
    /\ calls' = calls + 1
    /\ update_transitions(state, outcome)
    /\ activity' = [NoActivity EXCEPT !.model = "state_machine", !.op = "update",
                                      !.subtype = state, !.outcome = outcome]
    /\ UNCHANGED <<combat_patterns, combat_failures, fishing_patterns, gathering_patterns,
                   engagements, rate64>>
    /\ UNCHANGED <<bot_vars, interface_vars>>

NextActivities ==
    \/ \E level \in EnemyLevels, current_health \in {49, 50} :
          EvaluateCombatTarget(Enemy(level), current_health)
    \/ \E level \in EnemyLevels : EngageCombat(Enemy(level))
    \/ \E level \in EnemyLevels, outcome \in UpdateOutcomes :
          UpdateCombatPatterns(level, outcome)
    \/ \E fish_type \in FishTypes : EvaluateFishingSpot(SpotAt(fish_type, 1))
    \/ \E fish_type \in FishTypes : Fish(SpotAt(fish_type, 1))
    \/ \E fish_type \in FishTypes, outcome \in UpdateOutcomes :
          UpdateFishingPatterns(fish_type, outcome)
    \/ \E resource_type \in ResourceTypes : EvaluateResource(ResourceAt(resource_type, 1))
    \/ \E resource_type \in ResourceTypes : GatherResource(ResourceAt(resource_type, 1))
    \/ \E resource_type \in ResourceTypes, outcome \in UpdateOutcomes :
          UpdateGatheringPatterns(resource_type, outcome)
    \/ \E state \in {"gathering", "combat"}, outcome \in Outcomes : UpdateTransitions(state, outcome)

SpecActivities == Init /\ [][NextActivities]_vars

----------------------------------------------------------------------------
(* Runs of updates of one profile: after a few updates of either outcome,  *)
(* the success rate of a profile is updated with successful outcomes only, *)
(* the rate being followed as the binary64 number the interpreter holds.   *)

\* updates made in one run
MaxUpdates == 340

\* updates at the start of a run that can be failures
MaxLeadingFailures == 2

\* a profile as it is created: its success rate is one of 0.2, 0.4, 0.5,
\* 0.7, 0.8 and 0.9
InitRates ==
    /\ current_state = "idle"
    /\ current_target = "None"
    /\ recent_actions = <<>>
    /\ transitions = InitialTransitions
    /\ state_timers = [s \in StateSet |-> 0]
    /\ state_success_rates = [s \in StateSet |-> <<1, 2>>]
    /\ consecutive_failures = [s \in StateSet |-> 0]
    /\ observations = <<>>
    /\ patterns = NoPatterns
    /\ clustering = NoClustering
    /\ collected = [observations |-> 0, outcomes |-> 0, total_actions |-> 0]
    /\ action_history = 0
    /\ returned = <<>>
    /\ selection = NoSelection
    /\ last = NoCall
    /\ streak = NoStreak
    /\ calls = 0
    /\ combat_patterns = <<>>
    /\ combat_failures = 0
    /\ fishing_patterns = InitialFishingPatterns
    /\ gathering_patterns = InitialGatheringPatterns
    /\ engagements = <<>>
    /\ activity = NoActivity
    /\ \E tenths \in {2, 4, 5, 7, 8, 9} : rate64 = Double(tenths, 10)
    /\ InterfaceInit

\* the success rate line of update_combat_patterns, update_fishing_patterns
\* and update_gathering_patterns, on a profile that exists
UpdateRate(success) ==
    /\ calls < MaxUpdates
    /\ success \/ calls < MaxLeadingFailures
    /\ calls' = calls + 1
    /\ rate64' = updated_success_rate64(rate64, success)
    /\ activity' = [NoActivity EXCEPT !.model = "profile", !.op = "update",
                                      !.outcome = [success |-> success]]
    /\ UNCHANGED <<combat_patterns, combat_failures, fishing_patterns, gathering_patterns,
                   engagements>>
    /\ UNCHANGED <<bot_vars, transitions, state_success_rates, consecutive_failures,
                   interface_vars>>

NextRates == \E success \in BOOLEAN : UpdateRate(success)

SpecRates == InitRates /\ [][NextRates]_vars

----------------------------------------------------------------------------
(* Runs on incomplete snapshots: decide_action called on snapshots that    *)
(* lack nearby_objects, player_status, or the health inside player_status. *)

\* decide_action calls made in one run
MaxSnapshots == 6

\* snapshots with nothing but the position, without player_status,
\* without health, and without nearby_objects
IncompleteSnapshots ==
    {[player_position |-> <<0, 0>>],
     [player_position |-> <<0, 0>>, player_status |-> [energy |-> 100]]}
    \cup {[player_position |-> <<0, 0>>, nearby_objects |-> objs] : objs \in ObjectLists}
    \cup {[player_position |-> <<0, 0>>, nearby_objects |-> objs,
           player_status |-> [energy |-> 100]] : objs \in ObjectLists}
    \cup {[player_position |-> <<0, 0>>, player_status |-> [health |-> health]] :
             health \in HealthValues}

\* AIBot.decide_action(game_state) on an incomplete snapshot
DecideIncomplete(game_state) ==
    /\ calls < MaxSnapshots
    /\ calls' = calls + 1
    /\ decide_action(game_state)

NextSnapshots == \E game_state \in IncompleteSnapshots : DecideIncomplete(game_state)

SpecSnapshots == Init /\ [][NextSnapshots]_vars

----------------------------------------------------------------------------
(* The control loop and its buttons: start_ai and stop_ai run on the       *)
(* thread of the window at any moment, each thread started on run_ai_loop  *)
(* runs on its own. A thread stands at the test of the while loop          *)
(* ("test"), inside an iteration ("body"), in the sleep that ends an       *)
(* iteration ("sleep"), or has returned ("done"). The analyzer raises in   *)
(* observe_environment, which so returns None: an iteration makes no other *)
(* call to the bot. The writes of an iteration are made in one step, at    *)
(* its end.                                                                *)

\* threads started in one run
MaxThreads == 3

\* iterations of the loop made in one run, by all threads together
MaxIterations == 3

\* the snapshot of lines 326-334: the health is always 100
LoopGameStates ==
    {[player_position |-> <<0, 0>>,
      nearby_objects  |-> <<Wood, Spot, Enemy(5)>>,
      player_status   |-> [health |-> 100, energy |-> 100]]}

\* GameAIInterface.stop_ai()
stop_ai ==
    /\ is_running' = FALSE
    /\ UNCHANGED <<ai_threads, observer_vars>>

\* GameAIInterface.start_ai(), the Start button: region_ok tells whether
\* the region entry parses; when the loop is running the button stops it
StartAi(region_ok) ==
    /\ IF ~is_running
       THEN IF region_ok
            THEN /\ Len(ai_threads) < MaxThreads
                 /\ is_running' = TRUE
                 /\ ai_threads' = Append(ai_threads, "test")
                 /\ UNCHANGED observer_vars
            ELSE UNCHANGED interface_vars
       ELSE stop_ai
    /\ UNCHANGED <<bot_vars, transitions, state_success_rates, consecutive_failures,
                   calls, activity_vars>>

\* GameAIInterface.stop_ai() called by stop_all
StopAi ==
    /\ IF is_running THEN stop_ai ELSE UNCHANGED interface_vars
    /\ UNCHANGED <<bot_vars, transitions, state_success_rates, consecutive_failures,
                   calls, activity_vars>>

\* line 320: while self.is_running
LoopTest(t) ==
    /\ ai_threads[t] = "test"
    /\ ai_threads' = [ai_threads EXCEPT ![t] = IF is_running THEN "body" ELSE "done"]
    /\ UNCHANGED <<is_running, observer_vars>>
    /\ UNCHANGED <<bot_vars, transitions, state_success_rates, consecutive_failures,
                   calls, activity_vars>>

\* lines 321-348: one iteration, up to the sleep
LoopBody(t, game_state) ==
    /\ ai_threads[t] = "body"
    /\ calls < MaxIterations
    /\ calls' = calls + 1
    /\ observe_environment(game_state)
    /\ ai_threads' = [ai_threads EXCEPT ![t] = "sleep"]
    /\ UNCHANGED <<is_running, observer_vars>>

\* line 350: time.sleep(0.1) returns
LoopWake(t) ==
    /\ ai_threads[t] = "sleep"
    /\ ai_threads' = [ai_threads EXCEPT ![t] = "test"]
    /\ UNCHANGED <<is_running, observer_vars>>
    /\ UNCHANGED <<bot_vars, transitions, state_success_rates, consecutive_failures,
                   calls, activity_vars>>

NextInterface ==
    \/ \E region_ok \in BOOLEAN : StartAi(region_ok)
    \/ StopAi
    \/ \E t \in 1..Len(ai_threads) : LoopTest(t)
    \/ \E t \in 1..Len(ai_threads), game_state \in LoopGameStates : LoopBody(t, game_state)
    \/ \E t \in 1..Len(ai_threads) : LoopWake(t)

SpecInterface == Init /\ [][NextInterface]_vars

----------------------------------------------------------------------------
(* The screen observer: start_observation and stop_observation are called  *)
(* by the owner of the observer at any moment, each thread started on      *)
(* _capture_loop runs on its own. A thread stands at the test of the while *)
(* loop ("test"), inside an iteration ("body"), in the sleep that ends an  *)
(* iteration ("sleep"), or has returned ("done"). Of each thread is kept   *)
(* whether stop_observation was called while it was running ("stopped"),   *)
(* whether start_observation was called after that ("restarted"), and      *)
(* whether it has delivered a callback since then (late).                  *)

\* threads started in one run
MaxCaptureThreads == 3

\* frames analysed in one run, by all threads together
MaxFrames == 3

\* ScreenObserver.start_observation(region): no test of is_recording or of
\* a thread already started
StartObservation ==
    /\ Len(capture_threads) < MaxCaptureThreads
    /\ is_recording' = TRUE
    /\ capture_threads' =
          Append([t \in 1..Len(capture_threads) |->
                     IF capture_threads[t].pc # "done" /\ capture_threads[t].stops = "stopped"
                     THEN [capture_threads[t] EXCEPT !.stops = "restarted"]
                     ELSE capture_threads[t]],
                 [pc |-> "test", stops |-> "none", late |-> FALSE])
    /\ UNCHANGED <<is_running, ai_threads>>
    /\ UNCHANGED <<bot_vars, transitions, state_success_rates, consecutive_failures,
                   calls, activity_vars>>

\* ScreenObserver.stop_observation(): is_recording is cleared and
\* capture_thread, the thread started last, is joined for at most one
\* second. joined tells whether that thread, which finds is_recording
\* False at its next test, returns within the second, after the iteration
\* it is in; it does not when it is held inside an iteration (a slow
\* callback) or in the sleep of one second that follows a failed iteration
\* (line 201). No other thread is joined.
StopObservation(joined) ==
    /\ is_recording' = FALSE
    /\ LET n == Len(capture_threads)
           marked == [t \in 1..n |->
                         IF capture_threads[t].pc # "done" /\ capture_threads[t].stops = "none"
                         THEN [capture_threads[t] EXCEPT !.stops = "stopped"]
                         ELSE capture_threads[t]]
           running == n > 0 /\ marked[n].pc # "done"
           delivered == running /\ joined /\ marked[n].pc = "body"
       IN  /\ IF running
              THEN IF joined
                   THEN capture_threads' = [marked EXCEPT ![n].pc = "done"]
                   ELSE /\ marked[n].pc \in {"body", "sleep"}
                        /\ capture_threads' = marked
              ELSE /\ joined
                   /\ capture_threads' = marked
           /\ IF delivered
              THEN /\ calls < MaxFrames
                   /\ calls' = calls + 1
                   /\ collected' = store_observation(collected)
              ELSE UNCHANGED <<calls, collected>>
    /\ UNCHANGED <<is_running, ai_threads>>
    /\ UNCHANGED <<current_state, current_target, recent_actions, state_timers,
                   observations, patterns, clustering, action_history,
                   returned, selection, last, streak>>
    /\ UNCHANGED <<transitions, state_success_rates, consecutive_failures, activity_vars>>

\* line 166: while self.is_recording and self._virtual_frame is not None
CaptureTest(t) ==
    /\ capture_threads[t].pc = "test"
    /\ capture_threads' =
          [capture_threads EXCEPT ![t].pc = IF is_recording THEN "body" ELSE "done"]
    /\ UNCHANGED <<is_running, ai_threads, is_recording>>
    /\ UNCHANGED <<bot_vars, transitions, state_success_rates, consecutive_failures,
                   calls, activity_vars>>

\* lines 167-184: one iteration up to the sleep. _analyze_frame hands the
\* analysis to the callback, AIBot._handle_observation, which stores it in
\* the data collector (ai_core.py line 43).
CaptureBody(t) ==
    /\ capture_threads[t].pc = "body"
    /\ calls < MaxFrames
    /\ calls' = calls + 1
    /\ collected' = store_observation(collected)
    /\ capture_threads' =
          [capture_threads EXCEPT ![t].pc = "sleep",
                                  ![t].late = @ \/ capture_threads[t].stops = "restarted"]
    /\ UNCHANGED <<is_running, ai_threads, is_recording>>
    /\ UNCHANGED <<current_state, current_target, recent_actions, state_timers,
                   observations, patterns, clustering, action_history,
                   returned, selection, last, streak>>
    /\ UNCHANGED <<transitions, state_success_rates, consecutive_failures, activity_vars>>

\* line 196 or line 201: time.sleep returns
CaptureWake(t) ==
    /\ capture_threads[t].pc = "sleep"
    /\ capture_threads' = [capture_threads EXCEPT ![t].pc = "test"]
    /\ UNCHANGED <<is_running, ai_threads, is_recording>>
    /\ UNCHANGED <<bot_vars, transitions, state_success_rates, consecutive_failures,
                   calls, activity_vars>>

NextObserver ==
    \/ StartObservation
    \/ \E joined \in BOOLEAN : StopObservation(joined)
    \/ \E t \in 1..Len(capture_threads) : CaptureTest(t)
    \/ \E t \in 1..Len(capture_threads) : CaptureBody(t)
    \/ \E t \in 1..Len(capture_threads) : CaptureWake(t)

SpecObserver == Init /\ [][NextObserver]_vars

----------------------------------------------------------------------------
(* Properties.  The conditions on a snapshot are read off the snapshot     *)
(* itself, not through the operators of the model.                         *)

HealthIn(gs) == gs.player_status.health

EnemyAbove5(gs) ==
    \E i \in 1..Len(gs.nearby_objects) :
        /\ gs.nearby_objects[i].type = "enemy"
        /\ gs.nearby_objects[i].properties.level > 5

\* the weight of the transition s -> t, 0 when the row of s has no entry t
Weight(table, s, t) == IF t \in DOMAIN table[s] THEN table[s][t] ELSE <<0, 1>>

\* C1: from every current state other than healing, a snapshot with player
\* health below 50 makes get_next_state return healing, and the call
\* changes no dwell timer, failure counter, success rate or weight.
C1_HealthOverride ==
    [][\A gs \in GameStates :
          (HealthIn(gs) < 50 /\ current_state \in StateSet \ {"healing"} /\ DecideAction(gs))
          => /\ last'.ret = "healing"
             /\ current_state' = "healing"
             /\ UNCHANGED <<state_timers, consecutive_failures,
                            state_success_rates, transitions>>]_vars

\* C1: the override has been taken from a state other than idle whose
\* dwell timer was running.
C1_Witness ==
    /\ last.op = "decide"
    /\ last.branch = "override"
    /\ last.cs \notin {"idle", "healing"}
    /\ last.ret = "healing"
    /\ state_timers[last.cs] > 0

\* C2: after three update_transitions(s, failure) calls in a row, the next
\* get_next_state call from s, with health >= 50 and no enemy above level
\* 5 nearby, returns a state other than s and leaves s's failure counter 0.
C2_FailureEscape ==
    [][\A gs \in GameStates :
          (/\ streak.len = 3
           /\ streak.state = current_state
           /\ HealthIn(gs) >= 50
           /\ ~EnemyAbove5(gs)
           /\ DecideAction(gs))
          => /\ last'.ret # current_state
             /\ last'.ret \in StateSet
             /\ current_state' = last'.ret
             /\ consecutive_failures'[current_state] = 0]_vars

\* C2: the escape has been taken from a state the machine had moved to.
C2_Witness ==
    /\ last.op = "decide"
    /\ last.branch = "escape"
    /\ last.cs # "idle"
    /\ last.ret # last.cs
    /\ consecutive_failures[last.cs] = 0

\* C3: with player health below 30 get_next_state returns healing from
\* every current state, healing included, by the health override or the
\* forced transition: no failure counter is reset and nothing is drawn.
C3_ForcedHealing ==
    [][\A gs \in GameStates :
          (HealthIn(gs) < 30 /\ current_state \in StateSet /\ DecideAction(gs))
          => /\ last'.ret = "healing"
             /\ current_state' = "healing"
             /\ last'.branch \in {"override", "forced"}
             /\ consecutive_failures' = consecutive_failures]_vars

\* C3: healing has been forced from healing itself while its failure
\* counter had reached the escape threshold.
C3_Witness ==
    /\ last.op = "decide"
    /\ last.cs = "healing"
    /\ last.branch = "forced"
    /\ last.ret = "healing"
    /\ consecutive_failures["healing"] >= 3

\* C4: with an enemy above level 5 nearby and player health above 50,
\* get_next_state returns combat from every current state by the forced
\* transition, the failure counters as they were and the current state's
\* timer one higher; with any other snapshot (health 50 or less, or no
\* enemy above level 5) the forced transition never returns combat.
C4_ForcedCombat ==
    [][\A gs \in GameStates :
          (current_state \in StateSet /\ DecideAction(gs))
          => IF EnemyAbove5(gs) /\ HealthIn(gs) > 50
             THEN /\ last'.ret = "combat"
                  /\ current_state' = "combat"
                  /\ last'.branch = "forced"
                  /\ consecutive_failures' = consecutive_failures
                  /\ state_timers' = [state_timers EXCEPT ![current_state] = @ + 1]
             ELSE ~(last'.branch = "forced" /\ last'.ret = "combat")]_vars

\* C4: combat has been forced while the current state's failure counter
\* had reached the escape threshold, and the counter is still there.
C4_Witness ==
    /\ last.op = "decide"
    /\ last.branch = "forced"
    /\ last.ret = "combat"
    /\ consecutive_failures[last.cs] >= 3
    /\ state_timers[last.cs] > 0

C8_RowsSumToOne ==
    \A s \in StateSet :
        /\ DOMAIN transitions[s] = KeySet(s)
        /\ \A t \in KeySet(s) : transitions[s][t][1] >= 0 /\ transitions[s][t][2] > 0
        /\ RSum(transitions[s], RowKeys(s)) = <<1, 1>>

\* C8: a successful update has changed a row.
C8_Witness ==
    /\ last.op = "learn"
    /\ last.success
    /\ transitions[last.cs] # InitialTransitions[last.cs]

\* C9: update_transitions(s, failure) leaves the transition table, the
\* timers and every other state's success rate and failure counter as they
\* were; s's success rate is multiplied by 0.9 and s's counter is one more.
C9_FailureKeepsTable ==
    [][\A action \in LearnActions, outcome \in Outcomes :
          (~outcome.success /\ current_state \in StateSet /\ LearnFromOutcome(action, outcome))
          => /\ transitions' = transitions
             /\ state_timers' = state_timers
             /\ \A t \in StateSet \ {current_state} :
                    /\ state_success_rates'[t] = state_success_rates[t]
                    /\ consecutive_failures'[t] = consecutive_failures[t]
             /\ state_success_rates'[current_state] =
                    RMul(state_success_rates[current_state], <<9, 10>>)
             /\ consecutive_failures'[current_state] =
                    consecutive_failures[current_state] + 1]_vars

\* C9: a failure has been fed back in a state whose row an earlier success
\* had changed.
C9_Witness ==
    /\ last.op = "learn"
    /\ ~last.success
    /\ transitions[last.cs] # InitialTransitions[last.cs]

C11_DwellThenDraw ==
    [][\A gs \in GameStates :
          /\ (/\ current_state \in StateSet
               /\ HealthIn(gs) >= 50
               /\ ~(HealthIn(gs) < 30)
               /\ ~(EnemyAbove5(gs) /\ HealthIn(gs) > 50)
               /\ consecutive_failures[current_state] < 3
               /\ DecideAction(gs))
              => IF state_timers[current_state] + 1 <= 3
                 THEN /\ last'.branch = "stay"
                      /\ last'.ret = current_state
                      /\ current_state' = current_state
                      /\ state_timers' = [state_timers EXCEPT ![current_state] = @ + 1]
                 ELSE /\ last'.branch = "draw"
                      /\ current_state' = last'.ret
                      /\ state_timers' = [state_timers EXCEPT ![current_state] = 0]
          /\ (DecideAction(gs) /\ last'.branch = "draw")
              => state_timers[current_state] + 1 > 3]_vars

\* C11: a state other than the current one has been drawn from a state the
\* machine had moved to, after the current state was returned three times.
C11_Witness ==
    /\ last.op = "decide"
    /\ last.branch = "draw"
    /\ last.cs # "idle"
    /\ last.ret # last.cs
    /\ state_timers[last.cs] = 0

\* C12, as claimed: every transition out of a state s, by health override,
\* forced transition, failure escape or weighted draw, leaves s's dwell
\* timer at 0.
C12_Original ==
    [][\A gs \in GameStates :
          (current_state \in StateSet /\ DecideAction(gs) /\ current_state' # current_state)
          => state_timers'[current_state] = 0]_vars

\* C12, amended: only get_next_state called with current state s changes
\* s's dwell timer. A state chosen by the weighted draw leaves it at 0, the
\* health override leaves it as it was, and every other return (forced
\* transition, failure escape, staying) leaves it one higher, so a state
\* left by override, forced transition or failure escape keeps its count.
C12_TimerCounts ==
    [][/\ \A gs \in GameStates :
             (current_state \in StateSet /\ DecideAction(gs))
             => /\ \A t \in StateSet \ {current_state} : state_timers'[t] = state_timers[t]
                /\ state_timers'[current_state] =
                      CASE last'.branch = "draw"     -> 0
                        [] last'.branch = "override" -> state_timers[current_state]
                        [] OTHER                     -> state_timers[current_state] + 1
       /\ last'.op # "decide" => state_timers' = state_timers]_vars

\* C12: a state has been left by the weighted draw with its timer at 0
\* while a state left earlier by another rule still holds its count.
C12_Witness ==
    /\ last.op = "decide"
    /\ last.branch = "draw"
    /\ state_timers[last.cs] = 0
    /\ \E t \in StateSet \ {last.cs, current_state} : state_timers[t] > 0

\* some object of the kind is in the snapshot's nearby_objects
KindNearby(gs, kind) ==
    \E i \in 1..Len(gs.nearby_objects) : gs.nearby_objects[i].type = kind

\* the action names the kind's activity with a target of that kind from
\* the snapshot and the target's position, or is explore when the snapshot
\* has no object of the kind
TargetsKind(a, gs, name, kind) ==
    IF KindNearby(gs, kind)
    THEN /\ DOMAIN a = {"action", "target", "position"}
         /\ a.action = name
         /\ \E i \in 1..Len(gs.nearby_objects) : a.target = gs.nearby_objects[i]
         /\ a.target.type = kind
         /\ a.position = a.target.position
    ELSE a = [action |-> "explore"]

\* C13: the action decide_action returns matches the state reached in
\* that call: gather, fish or combat with a target of the matching kind
\* and the target's position when such an object is nearby and explore
\* otherwise; healing without target in healing; explore in idle and
\* exploring.
C13_ActionMatchesState ==
    [][\A gs \in GameStates :
          DecideAction(gs)
          => LET a == last'.action
             IN  CASE current_state' = "gathering" -> TargetsKind(a, gs, "gather", "resource")
                   [] current_state' = "fishing"   -> TargetsKind(a, gs, "fish", "fishing_spot")
                   [] current_state' = "combat"    -> TargetsKind(a, gs, "combat", "enemy")
                   [] current_state' = "healing"   -> a = [action |-> "healing"]
                   [] current_state' \in {"idle", "exploring"} -> a = [action |-> "explore"]
                   [] OTHER -> FALSE]_vars

\* C13: a call that moved the machine to combat has returned the combat
\* action on the enemy of the snapshot.
C13_Witness ==
    /\ last.op = "decide"
    /\ last.cs # "combat"
    /\ current_state = "combat"
    /\ DOMAIN last.action = {"action", "target", "position"}
    /\ last.action.action = "combat"
    /\ last.action.target.type = "enemy"
    /\ recent_actions[Len(recent_actions)] = last.action

\* C14: after any number of decide_action calls recent_actions holds at
\* most 10 entries, and they are the last (up to 10) actions decide_action
\* returned, oldest first.
C14_LastTenActions ==
    LET n == Len(returned)
        k == IF n < 10 THEN n ELSE 10
    IN  /\ Len(recent_actions) = k
        /\ \A i \in 1..k : recent_actions[i] = returned[n - k + i]

\* C14: more than 10 actions have been returned, of more than one kind
\* among those kept and with the oldest one dropped differing from the
\* oldest one kept.
C14_Witness ==
    /\ Len(returned) > 10
    /\ Len(recent_actions) = 10
    /\ recent_actions[1] # recent_actions[10]
    /\ returned[Len(returned) - 10] # recent_actions[1]

\* the update operations of the three activity models of src/activities
ActivityModelUpdates ==
    {"CombatManager.update_combat_patterns", "FishingManager.update_fishing_patterns",
     "ResourceGatherer.update_gathering_patterns"}

\* C15: every learn_from_outcome call forwards the outcome first to the
\* update operation of an activity model, then to
\* StateMachine.update_transitions, then to
\* PatternRecognizer.update_patterns.
C15_ForwardOrder ==
    last.op = "learn"
    => /\ Len(last.forwards) >= 3
       /\ last.forwards[1] \in ActivityModelUpdates
       /\ last.forwards[2] = "StateMachine.update_transitions"
       /\ last.forwards[3] = "PatternRecognizer.update_patterns"

\* the first element of input whose value is the maximum over input
FirstMaximum(input, value(_)) ==
    CHOOSE obj \in {input[i] : i \in 1..Len(input)} :
        \E i \in 1..Len(input) :
            /\ obj = input[i]
            /\ \A j \in 1..Len(input) : value(input[j]) <= value(input[i])
            /\ \A j \in 1..(i - 1) : value(input[j]) < value(input[i])

ResourceValue(obj) ==
    CASE obj.properties.resource_type = "wood"  -> 1
      [] obj.properties.resource_type = "ore"   -> 2
      [] obj.properties.resource_type = "herbs" -> 3

SpotValue(obj) ==
    CASE obj.properties.fish_type = "common" -> 1
      [] obj.properties.fish_type = "rare"   -> 2
      [] obj.properties.fish_type = "exotic" -> 3

EnemyValue(obj) ==
    (10 - (IF obj.properties.level < 5 THEN 5 - obj.properties.level
           ELSE obj.properties.level - 5))
    + (100 - obj.properties.health)

C17_BestCombatTarget ==
    (selection.fn = "select_best_combat_target" /\ selection.done)
    => /\ IF selection.input = <<>> THEN selection.result = <<>>
          ELSE selection.result = FirstMaximum(selection.input, EnemyValue)
       /\ selection.input = <<EnemyAt(5, 100, 1), EnemyAt(5, 20, 2)>>
          => selection.result = EnemyAt(5, 20, 2)

\* C17: the two enemies of level 5 with health 100 and 20 have been given
\* to select_best_combat_target.
C17_Witness ==
    /\ selection.fn = "select_best_combat_target"
    /\ selection.done
    /\ selection.input = <<EnemyAt(5, 100, 1), EnemyAt(5, 20, 2)>>
    /\ selection.result = selection.input[2]

\* C18: after any interleaving of analyze_observation and update_patterns
\* calls the observation buffer holds at most 1000 records, and a call
\* drops records from the old end of the buffer only.
C18_BoundedBuffer ==
    [][/\ Len(observations') <= 1000
       /\ \E dropped \in 0..Len(observations) :
             /\ Len(observations') >= Len(observations) - dropped
             /\ \A i \in (dropped + 1)..Len(observations) :
                    observations'[i - dropped] = observations[i]]_vars

\* C19: a clustering pass is made only when at least 100 records have been
\* appended to the buffer since the previous pass, the record of the call
\* included.
C19_PassEvery100 ==
    [][clustering'.passes > clustering.passes => clustering.since + 1 >= 100]_vars

\* how often the record occurs in the sequence
Occurrences(seq, record) == Cardinality({i \in 1..Len(seq) : seq[i] = record})

\* how often the record occurs in the cluster map
Clustered(record) ==
    LET RECURSIVE Sum(_)
        Sum(cs) == IF cs = {} THEN 0
                   ELSE LET c == CHOOSE c \in cs : TRUE
                        IN  Occurrences(patterns[c], record) + Sum(cs \ {c})
    IN  Sum(DOMAIN patterns)

\* C20: after every clustering pass, the second and later ones included,
\* the cluster map has exactly 5 buckets and holds every buffered record
\* exactly once and nothing else.
C20_ClusterMapRebuilt ==
    (clustering.passes > 0 /\ clustering.since = 0)
    => /\ Cardinality(DOMAIN patterns) = 5
       /\ \A c \in DOMAIN patterns : \A i \in 1..Len(patterns[c]) :
              Occurrences(observations, patterns[c][i]) > 0
       /\ \A i \in 1..Len(observations) :
              Clustered(observations[i]) = Occurrences(observations, observations[i])

\* C21: a clustering pass called while fewer than 50 records are buffered
\* leaves the cluster map and the observation buffer as they were.
C21_ShortPassNoOp ==
    [][(last'.op = "_update_patterns" /\ Len(observations) < 50)
       => (patterns' = patterns /\ observations' = observations)]_vars

\* a pass has been called on a buffer of 49 records
C21_Witness ==
    /\ last.op = "_update_patterns"
    /\ Len(observations) = 49
    /\ patterns = NoPatterns

\* the number of failed engagements since the last successful one
RECURSIVE TrailingFailures(_)
TrailingFailures(history) ==
    IF history = <<>> \/ history[Len(history)] THEN 0
    ELSE 1 + TrailingFailures(SubSeq(history, 1, Len(history) - 1))

\* the success rate engage_combat reads for the level
BaseRate(profiles, level) ==
    IF level \in DOMAIN profiles THEN profiles[level].success_rate ELSE <<1, 2>>

\* rate * 0.8^n
Degraded(rate, n) == Rat(rate[1] * 4 ^ n, rate[2] * 5 ^ n)

C23_LowHealthSentinel ==
    (activity.model = "combat" /\ activity.op = "evaluate")
    => /\ activity.health < 50 => activity.ret = <<-1, 1>>
       /\ activity.health >= 50 => activity.ret[1] >= 0

\* an evaluation at health 49 after two failed engagements
C23_Witness ==
    /\ activity.model = "combat" /\ activity.op = "evaluate"
    /\ activity.health = 49
    /\ activity.level = 6
    /\ combat_failures = 2

\* C24: no operation of an activity model fails on a subtype it has no
\* profile for.
C24_UnseenKeyHandled ==
    (activity.model \in {"combat", "fishing", "gathering"}) => ~activity.raised

\* C25: a profile that exists is kept by every operation, and keeps its
\* values in every operation but update.
C25_ProfilesChangeInUpdateOnly ==
    [][/\ DOMAIN combat_patterns \subseteq DOMAIN combat_patterns'
       /\ DOMAIN fishing_patterns \subseteq DOMAIN fishing_patterns'
       /\ DOMAIN gathering_patterns \subseteq DOMAIN gathering_patterns'
       /\ activity'.op # "update"
          => /\ \A l \in DOMAIN combat_patterns : combat_patterns'[l] = combat_patterns[l]
             /\ \A t \in DOMAIN fishing_patterns : fishing_patterns'[t] = fishing_patterns[t]
             /\ \A t \in DOMAIN gathering_patterns :
                    gathering_patterns'[t] = gathering_patterns[t]]_vars

\* an evaluation at a level whose profile an update has changed, next to
\* a level given its profile by an evaluation
C25_Witness ==
    /\ activity.model = "combat" /\ activity.op = "evaluate"
    /\ activity.health = 50
    /\ DOMAIN combat_patterns = {5, 6}
    /\ combat_patterns[activity.level] # DefaultCombatPattern

\* C27: after updates with cost and time >= 0, every profile has its
\* success_rate in [0, 1] and its averages >= 0, and every success rate of
\* the state machine is in [0, 1].
C27_StatisticsInRange ==
    /\ \A l \in DOMAIN combat_patterns :
          /\ combat_patterns[l].success_rate[1] >= 0
          /\ combat_patterns[l].success_rate[1] <= combat_patterns[l].success_rate[2]
          /\ combat_patterns[l].avg_damage_taken[1] >= 0
          /\ combat_patterns[l].avg_time[1] >= 0
    /\ \A t \in DOMAIN fishing_patterns :
          /\ fishing_patterns[t].success_rate[1] >= 0
          /\ fishing_patterns[t].success_rate[1] <= fishing_patterns[t].success_rate[2]
          /\ fishing_patterns[t].avg_time[1] >= 0
    /\ \A t \in DOMAIN gathering_patterns :
          /\ gathering_patterns[t].success_rate[1] >= 0
          /\ gathering_patterns[t].success_rate[1] <= gathering_patterns[t].success_rate[2]
          /\ gathering_patterns[t].avg_time[1] >= 0
    /\ \A st \in DOMAIN state_success_rates :
          /\ state_success_rates[st][1] >= 0
          /\ state_success_rates[st][1] <= state_success_rates[st][2]

\* successful updates of the herbs profile and of the combat state, and a
\* failed update of a combat profile
C27_Witness ==
    /\ 6 \in DOMAIN combat_patterns
    /\ combat_patterns[6].success_rate = <<9, 20>>
    /\ gathering_patterns["herbs"].success_rate = <<91, 100>>
    /\ state_success_rates["combat"] = <<11, 20>>

\* C28: for an enemy above level 5, evaluate_combat_target uses the risk
\* 0.1 * level and the reward level.
C28_LinearDifficulty ==
    (/\ activity.model = "combat" /\ activity.op = "evaluate"
     /\ activity.health >= 50 /\ activity.level > 5)
    => activity.difficulty = [risk |-> Rat(activity.level, 10), reward |-> activity.level]

\* 1.0
One == Double(1, 1)

\* 0.9999999999999994, which is 1 - 5 * 2^-53
Settled == [m |-> <<Limb - 5, Limb - 1, Limb - 1, 2 ^ 8 - 1>>, e |-> 0 - 53]

\* C26 as claimed: an update with a successful outcome strictly increases
\* a success_rate below 1 and never takes it above 1.
C26_Original ==
    [][(activity'.op = "update" /\ activity'.outcome.success)
       => /\ ~FLess(One, rate64')
          /\ FLess(rate64, One) => FLess(rate64, rate64')]_vars

\* C26: an update with a successful outcome never lowers the success_rate
\* and never takes it above 1, and strictly increases it while it is below
\* 0.9999999999999994, the number 0.9 * old + 0.1 gives back when computed
\* on it.
C26_IncreasesUntilSettled ==
    [][(activity'.op = "update" /\ activity'.outcome.success)
       => /\ ~FLess(One, rate64')
          /\ ~FLess(rate64', rate64)
          /\ FLess(rate64, Settled) => FLess(rate64, rate64')]_vars

\* a successful update has arrived at 0.9999999999999994
C26_Witness ==
    /\ activity.op = "update" /\ activity.outcome.success
    /\ rate64 = Settled

\* the snapshot with health 100 and an empty object list where it has none
Completed(gs) ==
    [k \in DOMAIN gs \cup {"nearby_objects", "player_status"} |->
        IF k = "nearby_objects"
        THEN (IF k \in DOMAIN gs THEN gs[k] ELSE <<>>)
        ELSE IF k = "player_status"
        THEN (IF k \in DOMAIN gs /\ "health" \in DOMAIN gs[k] THEN gs[k] ELSE [health |-> 100])
        ELSE gs[k]]

\* C29: on a snapshot without player_status, health or nearby_objects,
\* get_next_state has the results and decide_action makes the steps that
\* they have on the snapshot completed with health 100 and an empty object
\* list, and no call fails.
C29_DefaultsForMissingKeys ==
    [][/\ \A gs \in IncompleteSnapshots :
             /\ get_next_state(current_state, gs)
                    = get_next_state(current_state, Completed(gs))
             /\ decide_action(gs) <=> decide_action(Completed(gs))
       /\ last'.op = "decide" => ~last'.raised]_vars

\* a snapshot without health and with an enemy of level 6 has forced combat
C29_Witness ==
    /\ last.op = "decide"
    /\ last.branch = "forced"
    /\ last.ret = "combat"
    /\ last.action.action = "combat"

\* the threads that are executing run_ai_loop
LoopThreads == {t \in 1..Len(ai_threads) : ai_threads[t] # "done"}

\* C30: whatever the start_ai and stop_ai events, at most one thread is
\* executing run_ai_loop, and so at most one is inside an iteration of it.
C30_OneLoopThread ==
    /\ Cardinality(LoopThreads) <= 1
    /\ Cardinality({t \in LoopThreads : ai_threads[t] = "body"}) <= 1

\* C31: every outcome gather_resource returns has an amount of 1, 2 or 3
\* exactly when its success is true and the amount 0 otherwise, and every
\* outcome fish returns has the amount 1 exactly when its success is true
\* and the amount 0 otherwise.
C31_AmountMatchesSuccess ==
    (activity.op = "attempt" /\ ~activity.raised) =>
        /\ activity.model = "gathering" =>
               /\ activity.outcome.amount \in 0..3
               /\ activity.outcome.success <=> activity.outcome.amount \in 1..3
        /\ activity.model = "fishing" =>
               /\ activity.outcome.amount \in 0..1
               /\ activity.outcome.success <=> activity.outcome.amount = 1

\* a gathering attempt has just failed
C31_Witness ==
    /\ activity.model = "gathering"
    /\ activity.op = "attempt"
    /\ ~activity.raised
    /\ ~activity.outcome.success
    /\ activity.outcome.amount = 0

\* C32: the weighted draw of get_next_state returns only a state with an
\* entry in the current state's row of the transition table: from idle one
\* of gathering, fishing, combat and exploring, never idle or healing; from
\* healing never healing or combat; and healing only from combat.
C32_DrawFromRow ==
    (last.op = "decide" /\ last.branch = "draw") =>
        /\ last.ret \in DOMAIN transitions[last.cs]
        /\ last.cs = "idle" => last.ret \in {"gathering", "fishing", "combat", "exploring"}
        /\ last.cs = "healing" => last.ret \notin {"healing", "combat"}
        /\ last.ret = "healing" => last.cs = "combat"

\* healing has just been drawn from combat, after an outcome was learned
C32_Witness ==
    /\ last.op = "decide"
    /\ last.branch = "draw"
    /\ last.cs = "combat"
    /\ last.ret = "healing"
    /\ collected.outcomes > 0

\* C33 as stated: while every snapshot reports a player health below 50, a
\* decide_action call made in healing leaves the bot in healing.
C33_Original ==
    [][\A gs \in GameStates :
          (HealthIn(gs) < 50 /\ current_state = "healing" /\ DecideAction(gs))
              => current_state' = "healing"]_vars

\* C33: a decide_action call made in healing on a snapshot that reports a
\* player health below 30 leaves the bot in healing, so that healing, once
\* entered, is never left while every snapshot reports a health below 30.
C33_HealingKeptBelow30 ==
    [][\A gs \in GameStates :
          (HealthIn(gs) < 30 /\ current_state = "healing" /\ DecideAction(gs))
              => /\ current_state' = "healing"
                 /\ last'.ret = "healing"
                 /\ last'.branch = "forced"]_vars

\* healing has been kept by a call made in healing with the dwell timer
\* beyond its threshold
C33_Witness ==
    /\ last.op = "decide"
    /\ last.cs = "healing"
    /\ last.ret = "healing"
    /\ last.branch = "forced"
    /\ current_state = "healing"
    /\ state_timers["healing"] > 3

C35_OnlyOwnData ==
    [][\A action \in LearnActions, outcome \in Outcomes :
          LearnFromOutcome(action, outcome) =>
              /\ \A t \in StateSet \ {current_state} :
                     /\ transitions'[t] = transitions[t]
                     /\ state_success_rates'[t] = state_success_rates[t]
                     /\ consecutive_failures'[t] = consecutive_failures[t]
              /\ state_timers' = state_timers
              /\ \A t \in StateSet : consecutive_failures'[t] >= 0]_vars

\* a success has been learned in combat, while idle has a failure counted
\* and its dwell timer running
C35_Witness ==
    /\ last.op = "learn"
    /\ last.cs = "combat"
    /\ last.success
    /\ transitions["combat"] # InitialTransitions["combat"]
    /\ consecutive_failures["idle"] > 0
    /\ state_success_rates["idle"] # <<1, 2>>
    /\ state_timers["idle"] > 0

\* what C36 says of a feedback: an outcome without a success field is
\* recorded by update_patterns and counted by update_transitions as a
\* failure, the current state's failure counter one higher and its success
\* rate multiplied by 0.9
FeedbackIsFailure ==
    \A target \in {Wood, Enemy(6)}, number \in {1, 5, 10, 30} :
        Feedback(target, number) =>
            /\ "success" \notin DOMAIN interact_with_object(target, number, <<0, 1>>)
            /\ last'.success = FALSE
            /\ Len(observations') = Len(observations) + 1
            /\ consecutive_failures'[current_state] = consecutive_failures[current_state] + 1
            /\ state_success_rates'[current_state] =
                   RMul(state_success_rates[current_state], <<9, 10>>)
            /\ transitions' = transitions

\* C36 as stated: an outcome without a success field is a failure to
\* update_transitions and update_patterns, and after three such feedbacks in
\* a row the next tick takes the failure escape.
C36_Original ==
    [][/\ FeedbackIsFailure
       /\ \A gs \in GameStates :
             (streak.len = 3 /\ streak.state = current_state /\ DecideAction(gs))
                 => /\ last'.branch = "escape"
                    /\ last'.ret # current_state]_vars

\* C36: an outcome without a success field is a failure to
\* update_transitions and update_patterns, and after three such feedbacks in
\* a row the next tick takes the failure escape unless the health override
\* or a forced transition applies on that tick.
C36_EscapeUnlessOverridden ==
    [][/\ FeedbackIsFailure
       /\ \A gs \in GameStates :
             (streak.len = 3 /\ streak.state = current_state /\ DecideAction(gs))
                 => IF health_override(current_state, gs) \/ check_forced_transition(gs)
                    THEN /\ last'.branch \in {"override", "forced"}
                         /\ consecutive_failures' = consecutive_failures
                    ELSE /\ last'.branch = "escape"
                         /\ last'.ret # current_state
                         /\ consecutive_failures'[current_state] = 0]_vars

\* the escape has been taken from combat after three feedbacks of the
\* environment counted there
C36_Witness ==
    /\ last.op = "decide"
    /\ last.branch = "escape"
    /\ last.cs = "combat"
    /\ state_success_rates["combat"] = <<729, 2000>>
    /\ Len(observations) = 3

\* the threads that are executing _capture_loop
CaptureThreads == {t \in 1..Len(capture_threads) : capture_threads[t].pc # "done"}

\* C37: whatever the start_observation and stop_observation calls, at most
\* one thread is executing _capture_loop, and a thread that was executing it
\* when stop_observation was called starts no iteration and delivers no
\* callback once start_observation has been called again.
C37_OneCaptureLoop ==
    /\ Cardinality(CaptureThreads) <= 1
    /\ \A t \in 1..Len(capture_threads) :
          /\ ~capture_threads[t].late
          /\ capture_threads[t].stops = "restarted" => capture_threads[t].pc # "body"

====
